---- MODULE Spec2Model ----
(***************************************************************************)
(* The transcription pipeline of quick-caption: transcribeMedia and the    *)
(* functions it calls (audio preparation, timed transcription, optional    *)
(* high-accuracy transcription, optional correction, subtitle rendering,   *)
(* cleanup of the converted audio).  Each run of transcribeMedia is a      *)
(* process whose steps are the stretches of code between two awaits; the   *)
(* file system is shared by all runs.  The POST /api/transcribe handler of *)
(* the server wraps a run: it owns the uploaded file, the stage events     *)
(* sent to the client's socket and the response; the client keeps a stage *)
(* list it updates from these events.                                      *)
(***************************************************************************)
EXTENDS Integers, Sequences, FiniteSets, TLC

----------------------------------------------------------------------------
(* Bounds of the model *)

\* number of transcribeMedia runs that may be in flight together
NumRuns == 2
\* longest segment list in a response of the transcription service
MaxTimedSegs == 2
\* longest segment list in a response of the correction model
MaxCorrSegs == 2

Runs == 1..NumRuns

----------------------------------------------------------------------------
(* JavaScript values.  Strings are sequences of one-character strings.     *)

Undefined == [t |-> "undefined"]
Null == [t |-> "null"]
NaN == [t |-> "nan"]
Num(n) == [t |-> "num", v |-> n]
Str(s) == [t |-> "str", v |-> s]

\* a ?? b
Coalesce(a, b) == IF a.t \in {"undefined", "null"} THEN b ELSE a

\* the whitespace characters of the strings the model handles
IsSpace(c) == c \in {" ", "\n", "\t"}

RECURSIVE TrimStart(_)
TrimStart(s) ==
  IF s # <<>> /\ IsSpace(Head(s)) THEN TrimStart(Tail(s)) ELSE s

RECURSIVE TrimEnd(_)
TrimEnd(s) ==
  IF s # <<>> /\ IsSpace(s[Len(s)]) THEN TrimEnd(SubSeq(s, 1, Len(s) - 1)) ELSE s

\* String.prototype.trim
Trim(s) == TrimEnd(TrimStart(s))

UpperToLower ==
  [c \in {"S", "R", "T", "V", "X", "N", "O", "E", "W", "A"} |->
     CASE c = "S" -> "s" [] c = "R" -> "r" [] c = "T" -> "t" [] c = "V" -> "v"
       [] c = "X" -> "x" [] c = "N" -> "n" [] c = "O" -> "o" [] c = "E" -> "e"
       [] c = "W" -> "w" [] c = "A" -> "a"]

\* String.prototype.toLowerCase
ToLowerCase(s) ==
  [i \in 1..Len(s) |-> IF s[i] \in DOMAIN UpperToLower THEN UpperToLower[s[i]] ELSE s[i]]

\* Array.prototype.join(' ') of a sequence of strings
RECURSIVE JoinSpace(_)
JoinSpace(ss) ==
  IF ss = <<>> THEN <<>>
  ELSE IF Len(ss) = 1 THEN ss[1]
  ELSE ss[1] \o <<" ">> \o JoinSpace(Tail(ss))

\* Number(v) for the values a provider can put in a timing field
Number(v) ==
  CASE v.t = "num" -> v
    [] v.t = "null" -> Num(0)
    [] v.t = "str" -> IF Trim(v.v) = <<>> THEN Num(0) ELSE NaN
    [] OTHER -> NaN

\* Number.isFinite
IsFinite(v) == v.t = "num"

\* the sequences over S of length 0..n
RECURSIVE SeqsUpTo(_, _)
SeqsUpTo(S, n) ==
  IF n = 0 THEN {<<>>}
  ELSE LET shorter == SeqsUpTo(S, n - 1)
       IN shorter \cup {Append(q, x) : q \in {p \in shorter : Len(p) = n - 1}, x \in S}

----------------------------------------------------------------------------
(* Program constants *)

AUDIO_EXTENSIONS ==
  { <<".", "m", "p", "3">>, <<".", "w", "a", "v">>, <<".", "m", "4", "a">>,
    <<".", "a", "a", "c">>, <<".", "o", "g", "g">>, <<".", "f", "l", "a", "c">>,
    <<".", "o", "p", "u", "s">> }

SUBTITLE_FORMATS ==
  { <<".", "t", "x", "t">>, <<".", "s", "r", "t">>, <<".", "v", "t", "t">> }

OPENAI_UPLOAD_LIMIT_BYTES == 25 * 1024 * 1024

DefaultTimedModel == <<"w", "h", "i", "s", "p", "e", "r", "-", "1">>
DefaultHighAccuracyModel ==
  <<"g", "p", "t", "-", "4", "o", "-", "t", "r", "a", "n", "s", "c", "r", "i", "b", "e">>
DefaultCorrectionModel == <<"g", "p", "t", "-", "5">>

----------------------------------------------------------------------------
(* Pure functions of the pipeline.  A time is a number of seconds, carried *)
(* as an integer count of ticks of 1/4 millisecond.                        *)

TicksPerMilli == 4

\* normalizeSubtitleFormat: the value, when it does not throw
NormalizedFormatOf(format) ==
  IF format.t = "undefined" \/ format.v = <<>> THEN <<".", "s", "r", "t">>
  ELSE LET lower == ToLowerCase(Trim(format.v))
       IN IF lower # <<>> /\ Head(lower) = "." THEN lower ELSE <<".">> \o lower

FormatIsSupported(normalized) == normalized \in SUBTITLE_FORMATS

\* normalizeSubtitleFormat: [threw, value]
normalizeSubtitleFormat(format) ==
  LET normalized == NormalizedFormatOf(format)
  IN IF FormatIsSupported(normalized)
     THEN [threw |-> FALSE, value |-> normalized]
     ELSE [threw |-> TRUE, value |-> <<>>]

\* getTranscriptionOptions: the environment's model names, with the defaults
getTranscriptionOptions(e) ==
  [ timedModel |-> Coalesce(e.OPENAI_TIMED_MODEL, Str(DefaultTimedModel)).v,
    highAccuracyModel |->
      Coalesce(e.OPENAI_HIGH_ACCURACY_MODEL, Str(DefaultHighAccuracyModel)).v,
    correctionModel |-> Coalesce(e.OPENAI_CORRECTION_MODEL, Str(DefaultCorrectionModel)).v ]

\* shouldRunHighAccuracy as it would be without toLowerCase
shouldRunHighAccuracy_CaseSensitive(modelName) ==
  IF modelName = <<>> THEN FALSE
  ELSE LET normalized == Trim(modelName)
       IN /\ normalized # <<"n", "o", "n", "e">>
          /\ normalized # <<"s", "k", "i", "p">>
          /\ normalized # <<"f", "a", "l", "s", "e">>

\* shouldRunHighAccuracy
shouldRunHighAccuracy(modelName) ==
  IF modelName = <<>> THEN FALSE
  ELSE LET normalized == ToLowerCase(Trim(modelName))
       IN /\ normalized # <<"n", "o", "n", "e">>
          /\ normalized # <<"s", "k", "i", "p">>
          /\ normalized # <<"f", "a", "l", "s", "e">>

\* one element of extractSegmentsFromTranscription's map
ParseRawSegment(segment) ==
  [ id |-> segment.id,
    start |-> Number(Coalesce(segment.start,
                       Coalesce(segment.begin, Coalesce(segment.timingStart, Num(0))))),
    end |-> Number(Coalesce(segment.end, Coalesce(segment.timingEnd, Num(0)))),
    text |-> Trim(Coalesce(segment.text, Coalesce(segment.content, Str(<<>>))).v) ]

\* the filter of extractSegmentsFromTranscription
IsUsableSegment(parsed) == IsFinite(parsed.start) /\ IsFinite(parsed.end)

Canonical(parsed) ==
  [id |-> parsed.id, start |-> parsed.start.v, end |-> parsed.end.v, text |-> parsed.text]

extractSegmentsFromTranscription(transcription) ==
  LET rawSegments == IF transcription.segments.t = "array"
                     THEN transcription.segments.v ELSE <<>>
      parsed == [i \in 1..Len(rawSegments) |-> ParseRawSegment(rawSegments[i])]
  IN [i \in 1..Len(SelectSeq(parsed, IsUsableSegment)) |->
        Canonical(SelectSeq(parsed, IsUsableSegment)[i])]

SegmentTexts(segments) == [i \in 1..Len(segments) |-> segments[i].text]

\* transcription.text?.trim() ?? segments.map(s => s.text).join(' ').trim()
CombinedText(transcription, segments) ==
  IF transcription.text.t = "str" THEN Trim(transcription.text.v)
  ELSE Trim(JoinSpace(SegmentTexts(segments)))

\* ParseTimedTranscription as it would be without the check for segments
ParseTimedTranscription_AllowsEmpty(transcription) ==
  LET segments == extractSegmentsFromTranscription(transcription)
  IN [threw |-> FALSE,
      value |-> [text |-> CombinedText(transcription, segments), segments |-> segments]]

\* the parsing half of transcribeWithTimedModel: [threw, value]
ParseTimedTranscription(transcription) ==
  LET segments == extractSegmentsFromTranscription(transcription)
      combinedText == CombinedText(transcription, segments)
  IN IF Len(segments) = 0
     THEN [threw |-> TRUE, value |-> Null]
     ELSE [threw |-> FALSE, value |-> [text |-> combinedText, segments |-> segments]]

\* the parsing half of transcribeWithHighAccuracyModel: [threw, value]
ParseHighAccuracyTranscription(transcription) ==
  LET segments == extractSegmentsFromTranscription(transcription)
      combinedText == CombinedText(transcription, segments)
  IN IF combinedText = <<>>
     THEN [threw |-> TRUE, value |-> Null]
     ELSE [threw |-> FALSE,
           value |-> [text |-> combinedText,
                      segments |-> IF Len(segments) > 0
                                   THEN [t |-> "array", v |-> segments] ELSE Null]]

\* baseResult.segments.find(seg => seg.id === original.id): the index, 0 if none
RECURSIVE FindIndexFrom(_, _, _)
FindIndexFrom(segments, id, i) ==
  IF i > Len(segments) THEN 0
  ELSE IF segments[i].id = id THEN i
  ELSE FindIndexFrom(segments, id, i + 1)

FindReference(segments, id) == FindIndexFrom(segments, id, 1)

\* RefinedTextOf as it would be without the fallback to the base text
RefinedTextOf_KeepsBlank(reference, original) ==
  Trim(Coalesce(original.text, Str(<<>>)).v)

\* String(original.text ?? '').trim() || reference.text
RefinedTextOf(reference, original) ==
  LET trimmed == Trim(Coalesce(original.text, Str(<<>>)).v)
  IN IF trimmed # <<>> THEN trimmed ELSE reference.text

\* MergeSegment as it would be if the model's own timing were trusted
MergeSegment_TakesModelTiming(reference, original) ==
  [ id |-> reference.id,
    start |-> IF original.start.t = "num" THEN original.start.v ELSE reference.start,
    end |-> IF original.end.t = "num" THEN original.end.v ELSE reference.end,
    text |-> RefinedTextOf(reference, original) ]

\* the object the map of refineTranscriptWithGPT returns for a known id
MergeSegment(reference, original) ==
  [ id |-> reference.id,
    start |-> reference.start,
    end |-> reference.end,
    text |-> RefinedTextOf(reference, original) ]

\* does the map of refineTranscriptWithGPT throw on this response
HasUnknownId(baseSegments, items) ==
  \E i \in 1..Len(items) : FindReference(baseSegments, items[i].id) = 0

RefinedSegments(baseSegments, items) ==
  [i \in 1..Len(items) |->
     MergeSegment(baseSegments[FindReference(baseSegments, items[i].id)], items[i])]

\* text: refinedText || baseResult.text
RefinedResult(baseResult, items) ==
  LET refinedSegments == RefinedSegments(baseResult.segments, items)
      refinedText == Trim(JoinSpace(SegmentTexts(refinedSegments)))
  IN [ text |-> IF refinedText # <<>> THEN refinedText ELSE baseResult.text,
       segments |-> refinedSegments ]

\* refineTranscriptWithGPT as it would be if items with an unknown id were
\* skipped and the rest merged
refineTranscriptWithGPT_MergesKnownIds(baseResult, response) ==
  IF response.output_text.t # "json"
  THEN [threw |-> TRUE, value |-> Null,
        why |-> IF response.output_text.t = "empty" THEN "no output" ELSE "parse"]
  ELSE IF response.output_text.segments.t # "array"
  THEN [threw |-> TRUE, why |-> "no segments array", value |-> Null]
  ELSE LET IsKnown(item) == FindReference(baseResult.segments, item.id) # 0
       IN [threw |-> FALSE, why |-> "",
           value |-> RefinedResult(baseResult,
                                   SelectSeq(response.output_text.segments.v, IsKnown))]

\* refineTranscriptWithGPT after the call has returned `response`:
\* [threw, why, value].  A response is [output_text |-> ...] where the text
\* is missing/empty, not JSON, or JSON whose "segments" member is given.
refineTranscriptWithGPT(baseResult, response) ==
  IF response.output_text.t # "json"
  THEN [threw |-> TRUE, value |-> Null,
        why |-> IF response.output_text.t = "empty" THEN "no output" ELSE "parse"]
  ELSE IF response.output_text.segments.t # "array"
  THEN [threw |-> TRUE, why |-> "no segments array", value |-> Null]
  ELSE IF HasUnknownId(baseResult.segments, response.output_text.segments.v)
  THEN [threw |-> TRUE, why |-> "unknown id", value |-> Null]
  ELSE [threw |-> FALSE, why |-> "",
        value |-> RefinedResult(baseResult, response.output_text.segments.v)]

\* Math.round(seconds * 1000): the nearest integer, a half rounded up
RoundToMilliseconds(seconds) ==
  (seconds \div TicksPerMilli)
    + (IF 2 * (seconds % TicksPerMilli) >= TicksPerMilli THEN 1 ELSE 0)

\* TotalMilliseconds as it would be with Math.floor in place of Math.round
TotalMilliseconds_Truncates(seconds) ==
  LET floored == seconds \div TicksPerMilli
  IN IF floored > 0 THEN floored ELSE 0

\* Math.max(0, Math.round(seconds * 1000))
TotalMilliseconds(seconds) ==
  LET rounded == RoundToMilliseconds(seconds)
  IN IF rounded > 0 THEN rounded ELSE 0

DecimalDigits == <<"0", "1", "2", "3", "4", "5", "6", "7", "8", "9">>

\* String(n) of an integer
RECURSIVE ToDecimal(_)
ToDecimal(n) ==
  IF n < 0 THEN <<"-">> \o ToDecimal(0 - n)
  ELSE IF n < 10 THEN <<DecimalDigits[n + 1]>>
  ELSE ToDecimal(n \div 10) \o <<DecimalDigits[(n % 10) + 1]>>

\* String.prototype.padStart(targetLength, '0')
RECURSIVE PadStart(_, _)
PadStart(s, targetLength) ==
  IF Len(s) >= targetLength THEN s ELSE PadStart(<<"0">> \o s, targetLength)

\* formatTimestamp as it would be with the hours cut to two digits
formatTimestamp_TwoDigitHours(seconds, millisecondSeparator) ==
  LET totalMilliseconds == TotalMilliseconds(seconds)
      hours == (totalMilliseconds \div 3600000) % 100
      minutes == (totalMilliseconds % 3600000) \div 60000
      secs == (totalMilliseconds % 60000) \div 1000
      millis == totalMilliseconds % 1000
  IN PadStart(ToDecimal(hours), 2) \o <<":">> \o PadStart(ToDecimal(minutes), 2)
       \o <<":">> \o PadStart(ToDecimal(secs), 2)
       \o <<millisecondSeparator>> \o PadStart(ToDecimal(millis), 3)

\* formatTimestamp: the string hh:mm:ss<separator>mmm
formatTimestamp(seconds, millisecondSeparator) ==
  LET totalMilliseconds == TotalMilliseconds(seconds)
      hours == totalMilliseconds \div 3600000
      minutes == (totalMilliseconds % 3600000) \div 60000
      secs == (totalMilliseconds % 60000) \div 1000
      millis == totalMilliseconds % 1000
      hh == PadStart(ToDecimal(hours), 2)
      mm == PadStart(ToDecimal(minutes), 2)
      ss == PadStart(ToDecimal(secs), 2)
      ms == PadStart(ToDecimal(millis), 3)
  IN hh \o <<":">> \o mm \o <<":">> \o ss \o <<millisecondSeparator>> \o ms

\* text.replace(/\s+/g, ' '): every run of whitespace becomes one space
RECURSIVE CollapseSpaces(_)
CollapseSpaces(s) ==
  IF s = <<>> THEN <<>>
  ELSE IF ~IsSpace(s[1]) THEN <<s[1]>> \o CollapseSpaces(Tail(s))
  ELSE IF Len(s) >= 2 /\ IsSpace(s[2]) THEN CollapseSpaces(Tail(s))
  ELSE <<" ">> \o CollapseSpaces(Tail(s))

\* segment.text.replace(/\s+/g, ' ').trim()
NormalizeCueText(text) == Trim(CollapseSpaces(text))

\* Array.prototype.join(separator) of a sequence of strings
RECURSIVE Join(_, _)
Join(ss, separator) ==
  IF ss = <<>> THEN <<>>
  ELSE IF Len(ss) = 1 THEN ss[1]
  ELSE ss[1] \o separator \o Join(Tail(ss), separator)

\* ' --> ' between the two timestamps of a cue
Arrow == <<" ", "-", "-", ">", " ">>

\* `${start} --> ${end}\n${text}`
CueOf(segment, millisecondSeparator) ==
  formatTimestamp(segment.start, millisecondSeparator) \o Arrow
    \o formatTimestamp(segment.end, millisecondSeparator) \o <<"\n">>
    \o NormalizeCueText(segment.text)

\* buildSrtFromSegments as it would be if it numbered a block by segment.id
buildSrtFromSegments_NumbersById(segments) ==
  Join([i \in 1..Len(segments) |->
          ToDecimal(segments[i].id + 1) \o <<"\n">> \o CueOf(segments[i], ",") \o <<"\n">>],
       <<"\n">>)

\* buildSrtFromSegments: the blocks `${index + 1}\n${start} --> ${end}\n${text}\n`
\* joined with '\n'
buildSrtFromSegments(segments) ==
  Join([i \in 1..Len(segments) |->
          ToDecimal(i) \o <<"\n">> \o CueOf(segments[i], ",") \o <<"\n">>],
       <<"\n">>)

\* buildVttFromSegments: `WEBVTT\n\n${body}\n`, the body being the cues
\* joined with '\n\n'
buildVttFromSegments(segments) ==
  <<"W", "E", "B", "V", "T", "T", "\n", "\n">>
    \o Join([i \in 1..Len(segments) |-> CueOf(segments[i], ".")], <<"\n", "\n">>)
    \o <<"\n">>

\* !result.segments?.length: the result has no segments member, or an
\* empty one
LacksSegments(result) ==
  ~("segments" \in DOMAIN result) \/ Len(result.segments) = 0

\* renderSubtitleContent as it would be without the check for segments
renderSubtitleContent_RendersNothing(result, requested) ==
  LET format == NormalizedFormatOf(Str(requested))
      segments == IF LacksSegments(result) THEN <<>> ELSE result.segments
  IN
  IF ~FormatIsSupported(format)
  THEN [threw |-> TRUE, value |-> Null]
  ELSE IF format = <<".", "t", "x", "t">>
  THEN [threw |-> FALSE, value |-> result.text]
  ELSE IF format = <<".", "s", "r", "t">>
  THEN [threw |-> FALSE, value |-> buildSrtFromSegments(segments)]
  ELSE [threw |-> FALSE, value |-> buildVttFromSegments(segments)]

\* renderSubtitleContent: [threw, value]
renderSubtitleContent(result, requested) ==
  LET format == NormalizedFormatOf(Str(requested))
  IN
  IF ~FormatIsSupported(format)
  THEN [threw |-> TRUE, value |-> Null]
  ELSE IF format = <<".", "t", "x", "t">>
  THEN [threw |-> FALSE, value |-> result.text]
  ELSE IF LacksSegments(result)
  THEN [threw |-> TRUE, value |-> Null]
  ELSE IF format = <<".", "s", "r", "t">>
  THEN [threw |-> FALSE, value |-> buildSrtFromSegments(result.segments)]
  ELSE IF format = <<".", "v", "t", "t">>
  THEN [threw |-> FALSE, value |-> buildVttFromSegments(result.segments)]
  ELSE [threw |-> TRUE, value |-> Null]

\* the path prepareAudioForTranscription converts to
TempPathOf(inputPath) ==
  [dir |-> inputPath.dir, name |-> inputPath.name \o "_openai_tmp", ext |-> <<".", "m", "p", "3">>]

IsAudio(inputPath) == ToLowerCase(inputPath.ext) \in AUDIO_EXTENSIONS

\* WithinLimit as it would be with < in place of <=
WithinLimit_Strict(size) == size < OPENAI_UPLOAD_LIMIT_BYTES

\* stats.size <= OPENAI_UPLOAD_LIMIT_BYTES
WithinLimit(size) == size <= OPENAI_UPLOAD_LIMIT_BYTES

----------------------------------------------------------------------------
(* The inputs the environment can supply *)

Dir == "/uploads"

Mp3 == [dir |-> Dir, name |-> "a", ext |-> <<".", "m", "p", "3">>]
Mp4 == [dir |-> Dir, name |-> "a", ext |-> <<".", "m", "p", "4">>]
Wav == [dir |-> Dir, name |-> "a", ext |-> <<".", "W", "A", "V">>]
Gone == [dir |-> Dir, name |-> "c", ext |-> <<".", "m", "p", "4">>]

\* the paths a caller passes as inputPath
InputPaths == {Mp3, Mp4, Wav, Gone}

\* multer's destination and the file it writes for request q (a random
\* name without extension)
UploadDir == "/tmp/subtitles-api-uploads"

Upload(q) == [dir |-> UploadDir, name |-> "u" \o ToString(q), ext |-> <<>>]

\* the directory of the kept videos
VideosStorageDir == "stored-videos"

\* the most files of the storage directory whose names request q's copy
\* could take
MaxTaken == 2

\* `${userUid}_${timestamp}_${randomSuffix}_${sanitizedBaseName}${ext}`
StoredFilename(q) == "v" \o ToString(q)

\* `${userUid}_${timestamp}_${randomSuffix}_${counter}_${sanitizedBaseName}${ext}`
UniqueFilename(q, counter) == "v" \o ToString(q) \o "_" \o ToString(counter)

\* path.join(videosStorageDir, storedFilename)
Stored(q) == [dir |-> VideosStorageDir, name |-> StoredFilename(q), ext |-> <<>>]

\* path.join(videosStorageDir, uniqueFilename)
StoredAs(q, counter) ==
  [dir |-> VideosStorageDir, name |-> UniqueFilename(q, counter), ext |-> <<>>]

\* the paths the handler of request q tries in turn for its copy
StoredCandidates(q) == [k \in 1..(MaxTaken + 1) |-> IF k = 1 THEN Stored(q) ELSE StoredAs(q, k - 1)]

UploadPaths == {Upload(q) : q \in Runs}

AllPaths ==
  InputPaths \cup UploadPaths \cup {TempPathOf(p) : p \in InputPaths \cup UploadPaths}
    \cup {StoredCandidates(q)[k] : q \in Runs, k \in 1..(MaxTaken + 1)}

NoFile == -1

\* the media files on disk when the runs start: an audio file exactly at the
\* upload limit, a video and an audio file one byte over it
InitialFiles ==
  [p \in AllPaths |->
     CASE p = Mp3 -> OPENAI_UPLOAD_LIMIT_BYTES
       [] p = Mp4 -> OPENAI_UPLOAD_LIMIT_BYTES + 1
       [] p = Wav -> OPENAI_UPLOAD_LIMIT_BYTES + 1
       [] OTHER -> NoFile]

\* the sizes the transcoder's output can have
ConvertedSizes == {OPENAI_UPLOAD_LIMIT_BYTES, OPENAI_UPLOAD_LIMIT_BYTES + 1}

\* the format argument of transcribeMedia
FormatArguments ==
  { Undefined, Str(<<"V", "T", "T">>), Str(<<" ", ".", "t", "x", "t">>),
    Str(<<"p", "d", "f">>) }

\* process.env
Environments ==
  [ OPENAI_API_KEY : {Undefined, Str(<<"k">>)},
    OPENAI_TIMED_MODEL : {Undefined},
    OPENAI_HIGH_ACCURACY_MODEL : {Undefined, Str(<<" ", "N", "O", "N", "E">>)},
    OPENAI_CORRECTION_MODEL : {Undefined, Str(<<>>)} ]

U == Undefined

RawSegment(id, start, begin, timingStart, end, timingEnd, text, content) ==
  [ id |-> id, start |-> start, begin |-> begin, timingStart |-> timingStart,
    end |-> end, timingEnd |-> timingEnd, text |-> text, content |-> content ]

\* segments as a provider can return them: plain; start after end; the
\* alternative field names and an id already used; a start that is no number
RawSegments ==
  { RawSegment(0, Num(0), U, U, Num(25000), U, Str(<<" ", "a", " ">>), U),
    RawSegment(1, Num(25000), U, U, Num(0), U, Str(<<"b">>), U),
    RawSegment(0, U, Num(25000), U, U, Num(50004), U, Str(<<"c">>)),
    RawSegment(1, Str(<<"x">>), U, U, Num(10), U, Str(<<"b">>), U) }

Array(q) == [t |-> "array", v |-> q]

SegmentLists(S, n) == {U} \cup {Array(q) : q \in SeqsUpTo(S, n)}

\* responses of the transcription service to the timed call
TimedTranscriptions ==
  [ text : {U, Str(<<"a", " ", "b", " ">>)},
    segments : SegmentLists(RawSegments, MaxTimedSegs) ]

\* responses of the transcription service to the high-accuracy call
HighAccuracyTranscriptions ==
  { [text |-> Str(<<"h">>), segments |-> U],
    [text |-> Str(<<" ">>), segments |-> U],
    [text |-> U, segments |-> Array(<<RawSegment(5, Num(0), U, U, Num(10), U, Str(<<"h">>), U)>>)] }

\* the objects of a correction response's "segments" array
CorrectionItems ==
  { [id |-> 0, start |-> Num(90000), end |-> Num(95000), text |-> Str(<<"x">>)],
    [id |-> 0, start |-> U, end |-> U, text |-> Str(<<" ">>)],
    [id |-> 1, start |-> Num(0), end |-> Num(90000), text |-> U],
    [id |-> 1, start |-> Num(90000), end |-> Num(0), text |-> Str(<<" ", "y">>)],
    [id |-> 7, start |-> Num(0), end |-> Num(25000), text |-> Str(<<"x">>)] }

\* responses of the correction model
CorrectionResponses ==
  { [output_text |-> [t |-> "empty"]], [output_text |-> [t |-> "invalid"]] }
  \cup { [output_text |-> [t |-> "json", segments |-> l]] :
           l \in SegmentLists(CorrectionItems, MaxCorrSegs) }

----------------------------------------------------------------------------
(* State *)

VARIABLES
  files,   \* the file system: path -> size in bytes, NoFile when absent
  env,     \* process.env
  run,     \* run -> the locals of that call of transcribeMedia
  request, \* request -> the locals of the POST /api/transcribe handler
           \* serving it; the handler of request q awaits run q
  applied, \* the last application of a pure function: its arguments and
           \* its value
  client   \* the stage list of the client's workflow hook, with the events
           \* it has handled

vars == <<files, env, run, request, applied, client>>

\* the locals of a call of transcribeMedia that has not started, with the
\* history the properties read: the external calls issued (calls), the stage
\* an exception was raised in (failedAt), the size fsp.stat reported for the
\* converted audio (convertedSize), the number of usable segments of the
\* timed response (timedUsable), what the high-accuracy stage came to
\* (highAccuracy), what the correction response held and what became of it
\* (correction), and whether the final unlink failed (unlinkFailed)
NewRun ==
  [ pc |-> "NotStarted",
    inputPath |-> Null,
    format |-> <<>>,
    tempPath |-> Null,
    audioPreparation |-> Null,
    timedResult |-> Null,
    highAccuracyResult |-> Null,
    refinedResult |-> Null,
    warnings |-> <<>>,
    pending |-> Null,
    result |-> Null,
    error |-> "",
    calls |-> <<>>,
    failedAt |-> "",
    highAccuracy |-> "none",
    convertedSize |-> NoFile,
    timedUsable |-> -1,
    correction |-> [status |-> "none", why |-> "", foreignTiming |-> FALSE,
                    knownIds |-> FALSE, unknownId |-> FALSE],
    unlinkFailed |-> FALSE ]

\* the stage of the pipeline a position of transcribeMedia belongs to
Stage(pc) ==
  CASE pc = "NotStarted" -> "NotStarted"
    [] pc \in {"assertPathExists", "stat", "assertFfmpeg", "ffmpeg", "statConverted"}
         -> "Preparing"
    [] pc = "timed" -> "TimedTranscribing"
    [] pc = "highAccuracy" -> "HighAccuracyTranscribing"
    [] pc = "correction" -> "Correcting"
    [] pc = "render" -> "Rendering"
    [] pc = "cleanup" -> "Finishing"
    [] pc = "returned" -> "Complete"
    [] pc = "thrown" -> "Error"

Options == getTranscriptionOptions(env)

\* the locals of a handler whose request has not arrived: the uploaded file
\* (file), the fields of the form (socketId, userUid), the normalized format,
\* the stage events handed to the emitter (emitted) and those it sent to the
\* socket (events), the response (status, body),
\* the row inserted in the videos table (row), and whether the unlink of the
\* uploaded file failed (unlinkFailed)
NewRequest ==
  [ pc |-> "NotReceived",
    file |-> Null,
    socketId |-> Undefined,
    userUid |-> Undefined,
    format |-> <<>>,
    emitted |-> <<>>,
    events |-> <<>>,
    status |-> 0,
    body |-> Null,
    row |-> Null,
    storage |-> "none",
    copiedTo |-> Null,
    unlinkFailed |-> FALSE ]

\* STAGE_DEFINITIONS of the client without the labels: every stage idle
STAGE_DEFINITIONS ==
  << [id |-> "upload", status |-> "idle", message |-> Null],
     [id |-> "timed-transcription", status |-> "idle", message |-> Null],
     [id |-> "high-accuracy", status |-> "idle", message |-> Null],
     [id |-> "correction", status |-> "idle", message |-> Null],
     [id |-> "complete", status |-> "idle", message |-> Null] >>

\* the state of the hook when it is mounted: useState(cloneStages(STAGE_DEFINITIONS)),
\* nothing submitted and no stage event handled. lastStart is the index in
\* STAGE_ORDER of the last `start` event since the submit (-1: none yet) and
\* startsInOrder tells whether these indices have never decreased
NewClient ==
  [ stages |-> STAGE_DEFINITIONS,
    submitted |-> FALSE,
    handled |-> 0,
    lastEvent |-> Null,
    lastStart |-> -1,
    startsInOrder |-> TRUE ]

\* no pure function applied yet
NotApplied == [fn |-> "none"]

Init ==
  /\ files = InitialFiles
  /\ env \in Environments
  /\ run = [r \in Runs |-> NewRun]
  /\ request = [q \in Runs |-> NewRequest]
  /\ applied = NotApplied
  /\ client = NewClient

----------------------------------------------------------------------------
(* Control flow shared by the steps *)

\* the function ends: the promise resolves with a value or rejects
Settle(me, outcome) ==
  IF outcome.kind = "return"
  THEN [me EXCEPT !.pc = "returned", !.result = outcome.value, !.pending = Null]
  ELSE [me EXCEPT !.pc = "thrown", !.error = outcome.message, !.pending = Null]

\* does the finally block of transcribeMedia have a cleanup to await
HasCleanup(me) == me.audioPreparation.cleanup # Null

\* leaving the try block of transcribeMedia with an outcome
Finally(me, outcome) ==
  IF HasCleanup(me)
  THEN [me EXCEPT !.pc = "cleanup", !.pending = outcome]
  ELSE Settle(me, outcome)

\* an exception before the try block is entered
ThrowOutsideTry(me, message) ==
  [me EXCEPT !.pc = "thrown", !.error = message, !.failedAt = Stage(me.pc)]

\* an exception inside the try block that nothing catches
ThrowInsideTry(me, message) ==
  Finally([me EXCEPT !.failedAt = Stage(me.pc)], [kind |-> "throw", message |-> message])

\* the try block is entered: transcribeWithTimedModel issues its call
EnterTimed(me, audioPreparation) ==
  [me EXCEPT !.audioPreparation = audioPreparation,
             !.pc = "timed", !.calls = Append(@, "timed")]

\* is the correction stage run:  if (transcriptionOptions.correctionModel)
ShouldRunCorrection(options) == options.correctionModel # <<>>

\* EnterCorrection as it would be if refinedResult started from the text of
\* the high-accuracy transcript when there is one
EnterCorrection_PrefersHighAccuracy(me) ==
  LET initial == IF me.highAccuracyResult = Null THEN me.timedResult
                 ELSE [me.timedResult EXCEPT !.text = me.highAccuracyResult.text]
  IN IF ShouldRunCorrection(Options)
     THEN [me EXCEPT !.refinedResult = initial,
                     !.pc = "correction", !.calls = Append(@, "correction")]
     ELSE [me EXCEPT !.refinedResult = initial, !.pc = "render",
                     !.correction.status = "skipped"]

\* let refinedResult = timedResult, then the correction call or the rendering
EnterCorrection(me) ==
  IF ShouldRunCorrection(Options)
  THEN [me EXCEPT !.refinedResult = me.timedResult,
                  !.pc = "correction", !.calls = Append(@, "correction")]
  ELSE [me EXCEPT !.refinedResult = me.timedResult, !.pc = "render",
                  !.correction.status = "skipped"]

\* EnterHighAccuracy as it would be if the correction call were issued
\* together with the high-accuracy call
EnterHighAccuracy_WithCorrection(me) ==
  IF shouldRunHighAccuracy(Options.highAccuracyModel)
  THEN [me EXCEPT !.pc = "highAccuracy",
                  !.calls = Append(Append(@, "highAccuracy"), "correction")]
  ELSE EnterCorrection([me EXCEPT !.highAccuracy = "skipped"])

\* after the timed result: the high-accuracy call, or on to the correction
EnterHighAccuracy(me) ==
  IF shouldRunHighAccuracy(Options.highAccuracyModel)
  THEN [me EXCEPT !.pc = "highAccuracy", !.calls = Append(@, "highAccuracy")]
  ELSE EnterCorrection([me EXCEPT !.highAccuracy = "skipped"])

\* the models member of the value transcribeMedia returns
ModelsOf(me, options) ==
  [ timed |-> Str(options.timedModel),
    highAccuracy |-> IF me.highAccuracyResult # Null
                     THEN Str(options.highAccuracyModel) ELSE Null,
    correction |-> Str(options.correctionModel) ]

\* the value returned as it would be with the segments of the timed stage
ReturnValue_TimedSegments(me, subtitleContent) ==
  [ text |-> me.refinedResult.text,
    segments |-> me.timedResult.segments,
    subtitle |-> [format |-> me.format, content |-> subtitleContent],
    models |-> ModelsOf(me, Options),
    warnings |-> me.warnings ]

\* the value transcribeMedia returns
ReturnValue(me, subtitleContent) ==
  [ text |-> me.refinedResult.text,
    segments |-> me.refinedResult.segments,
    subtitle |-> [format |-> me.format, content |-> subtitleContent],
    models |-> ModelsOf(me, Options),
    warnings |-> me.warnings ]

\* the messages of the errors the properties name
SizeLimitExceeded == "Converted audio still exceeds the 25 MB OpenAI limit."

NoTimestampsAvailable == "No segments returned by model; cannot proceed without timestamps."

SegmentsRequired == "Cannot render structured subtitle without segment data."

----------------------------------------------------------------------------
(* The steps of transcribeMedia: one per stretch of code between awaits *)

\* transcribeMedia is called: the argument checks, up to the await of
\* assertPathExists
Invoked(new, inputPath, format) ==
  LET me == [new EXCEPT !.pc = "assertPathExists"]
      normalized == normalizeSubtitleFormat(format)
  IN IF inputPath = Undefined
     THEN ThrowOutsideTry(me, "inputPath is required")
     ELSE IF normalized.threw
     THEN ThrowOutsideTry([me EXCEPT !.inputPath = inputPath],
                          "Unsupported subtitle format")
     ELSE [me EXCEPT !.inputPath = inputPath, !.format = normalized.value]

\* a caller other than the server calls transcribeMedia
Invoke(r, inputPath, format) ==
  /\ run[r].pc = "NotStarted"
  /\ run' = [run EXCEPT ![r] = Invoked(run[r], inputPath, format)]
  /\ UNCHANGED <<files, env, request, applied, client>>

\* fsp.access answers; createOpenAIClient; prepareAudioForTranscription is
\* called and awaits fsp.stat
AssertPathExists(r) ==
  /\ run[r].pc = "assertPathExists"
  /\ LET me == run[r]
     IN run' = [run EXCEPT ![r] =
          IF files[me.inputPath] = NoFile
          THEN ThrowOutsideTry(me, "File not found")
          ELSE IF env.OPENAI_API_KEY = Undefined \/ env.OPENAI_API_KEY.v = <<>>
          THEN ThrowOutsideTry(me, "OPENAI_API_KEY environment variable is required")
          ELSE [me EXCEPT !.pc = "stat"]]
  /\ UNCHANGED <<files, env, request, applied, client>>

\* must prepareAudioForTranscription convert the input
NeedsConversion(inputPath, size) == ~(IsAudio(inputPath) /\ WithinLimit(size))

\* fsp.stat(inputPath) answers: the input is used as it is and the timed
\* call is issued, or assertFfmpeg is awaited
StatInput(r) ==
  /\ run[r].pc = "stat"
  /\ LET me == run[r]
     IN run' = [run EXCEPT ![r] =
          IF files[me.inputPath] = NoFile
          THEN ThrowOutsideTry(me, "ENOENT")
          ELSE IF ~NeedsConversion(me.inputPath, files[me.inputPath])
          THEN EnterTimed(me, [audioPath |-> me.inputPath, cleanup |-> Null])
          ELSE [me EXCEPT !.pc = "assertFfmpeg", !.calls = Append(@, "ffmpeg -version")]]
  /\ UNCHANGED <<files, env, request, applied, client>>

\* ffmpeg -version ends: the transcoder is spawned on tempPath, or is missing
AssertFfmpeg(r, found) ==
  /\ run[r].pc = "assertFfmpeg"
  /\ LET me == run[r]
     IN run' = [run EXCEPT ![r] =
          IF found
          THEN [me EXCEPT !.pc = "ffmpeg", !.tempPath = TempPathOf(me.inputPath),
                          !.calls = Append(@, "ffmpeg")]
          ELSE ThrowOutsideTry(me, "ffmpeg is required but was not found in PATH.")]
  /\ UNCHANGED <<files, env, request, applied, client>>

\* the transcoder exits with code 0, having written tempPath (-y overwrites)
FfmpegSucceeds(r, size) ==
  /\ run[r].pc = "ffmpeg"
  /\ files' = [files EXCEPT ![run[r].tempPath] = size]
  /\ run' = [run EXCEPT ![r].pc = "statConverted"]
  /\ UNCHANGED <<env, request, applied, client>>

\* the transcoder fails, with or without a partial output file left behind
FfmpegFails(r, partial) ==
  /\ run[r].pc = "ffmpeg"
  /\ files' = IF partial THEN [files EXCEPT ![run[r].tempPath] = 0] ELSE files
  /\ run' = [run EXCEPT ![r] = ThrowOutsideTry(run[r], "ffmpeg exited with code 1")]
  /\ UNCHANGED <<env, request, applied, client>>

\* ConvertedTooLarge as it would be with the limit off by one byte
ConvertedTooLarge_OffByOne(size) == size > OPENAI_UPLOAD_LIMIT_BYTES + 1

\* is the converted audio over the upload limit
ConvertedTooLarge(size) == size > OPENAI_UPLOAD_LIMIT_BYTES

\* fsp.stat(tempPath) answers: the size check, then the timed call is issued
StatConverted(r) ==
  /\ run[r].pc = "statConverted"
  /\ LET me == [run[r] EXCEPT !.convertedSize = files[run[r].tempPath]]
     IN run' = [run EXCEPT ![r] =
          IF files[me.tempPath] = NoFile
          THEN ThrowOutsideTry(me, "ENOENT")
          ELSE IF ConvertedTooLarge(files[me.tempPath])
          THEN ThrowOutsideTry(me, SizeLimitExceeded)
          ELSE EnterTimed(me, [audioPath |-> me.tempPath,
                               cleanup |-> [unlink |-> me.tempPath]])]
  /\ UNCHANGED <<files, env, request, applied, client>>

\* can the audio file be read when a transcription call is made
AudioReadable(me) == files[me.audioPreparation.audioPath] # NoFile

\* the timed call rejects (service error, or the audio file cannot be read)
TimedCallFails(r) ==
  /\ run[r].pc = "timed"
  /\ run' = [run EXCEPT ![r] = ThrowInsideTry(run[r], "transcription service error")]
  /\ UNCHANGED <<files, env, request, applied, client>>

\* the timed call answers: transcribeWithTimedModel parses the response and
\* transcribeMedia goes on to the next stage that is switched on
TimedCallReturns(r, transcription) ==
  /\ run[r].pc = "timed"
  /\ AudioReadable(run[r])
  /\ LET me == [run[r] EXCEPT
                    !.timedUsable = Len(extractSegmentsFromTranscription(transcription))]
         parsed == ParseTimedTranscription(transcription)
     IN run' = [run EXCEPT ![r] =
          IF parsed.threw
          THEN ThrowInsideTry(me, NoTimestampsAvailable)
          ELSE EnterHighAccuracy([me EXCEPT !.timedResult = parsed.value])]
  /\ UNCHANGED <<files, env, request, applied, client>>

HighAccuracyWarning == "High-accuracy transcription failed"

CorrectionWarning == "Correction model failed"

\* CatchHighAccuracy as it would be if it pushed no warning
CatchHighAccuracy_Silent(me) ==
  EnterCorrection([me EXCEPT !.highAccuracy = "failed"])

\* the catch block around transcribeWithHighAccuracyModel
CatchHighAccuracy(me) ==
  EnterCorrection([me EXCEPT !.warnings = Append(@, HighAccuracyWarning),
                             !.highAccuracy = "failed"])

\* the high-accuracy call rejects
HighAccuracyCallFails(r) ==
  /\ run[r].pc = "highAccuracy"
  /\ run' = [run EXCEPT ![r] = CatchHighAccuracy(run[r])]
  /\ UNCHANGED <<files, env, request, applied, client>>

\* the high-accuracy call answers
HighAccuracyCallReturns(r, transcription) ==
  /\ run[r].pc = "highAccuracy"
  /\ AudioReadable(run[r])
  /\ LET me == run[r]
         parsed == ParseHighAccuracyTranscription(transcription)
     IN run' = [run EXCEPT ![r] =
          IF parsed.threw
          THEN CatchHighAccuracy(me)
          ELSE EnterCorrection([me EXCEPT !.highAccuracyResult = parsed.value,
                                          !.highAccuracy = "done"])]
  /\ UNCHANGED <<files, env, request, applied, client>>

\* CatchCorrection as it would be if the error were thrown on
CatchCorrection_Rethrows(me, why) ==
  ThrowInsideTry([me EXCEPT !.correction.status = "failed", !.correction.why = why],
                 CorrectionWarning)

\* the catch block around refineTranscriptWithGPT
CatchCorrection(me, why) ==
  [me EXCEPT !.warnings = Append(@, CorrectionWarning),
             !.pc = "render",
             !.correction.status = "failed", !.correction.why = why]

\* the correction call rejects
CorrectionCallFails(r) ==
  /\ run[r].pc = "correction"
  /\ run' = [run EXCEPT ![r] = CatchCorrection(run[r], "call")]
  /\ UNCHANGED <<files, env, request, applied, client>>

\* does an item of the response name a base segment with a timing of its own
HasForeignTiming(baseSegments, items) ==
  \E i \in 1..Len(items) :
    LET k == FindReference(baseSegments, items[i].id)
    IN /\ k # 0
       /\ items[i].start.t = "num" /\ items[i].end.t = "num"
       /\ items[i].start.v # baseSegments[k].start
       /\ items[i].end.v # baseSegments[k].end

\* does an item of the response name a base segment and carry a text for it
HasKnownIds(baseSegments, items) ==
  \E i \in 1..Len(items) :
    LET k == FindReference(baseSegments, items[i].id)
    IN /\ k # 0
       /\ RefinedTextOf(baseSegments[k], items[i]) # baseSegments[k].text

\* does an item of the response carry an id no base segment has
NamesUnknownId(baseSegments, items) ==
  \E i \in 1..Len(items) :
    \A k \in 1..Len(baseSegments) : baseSegments[k].id # items[i].id

ItemsOf(response) ==
  IF response.output_text.t = "json" /\ response.output_text.segments.t = "array"
  THEN response.output_text.segments.v ELSE <<>>

\* the correction call answers
CorrectionCallReturns(r, response) ==
  /\ run[r].pc = "correction"
  /\ LET me == run[r]
         refined == refineTranscriptWithGPT(me.timedResult, response)
         seen == [me EXCEPT
                    !.correction.foreignTiming =
                       HasForeignTiming(me.timedResult.segments, ItemsOf(response)),
                    !.correction.knownIds =
                       HasKnownIds(me.timedResult.segments, ItemsOf(response)),
                    !.correction.unknownId =
                       NamesUnknownId(me.timedResult.segments, ItemsOf(response))]
     IN run' = [run EXCEPT ![r] =
          IF refined.threw
          THEN CatchCorrection(seen, refined.why)
          ELSE [seen EXCEPT !.refinedResult = refined.value, !.pc = "render",
                            !.correction.status = "accepted"]]
  /\ UNCHANGED <<files, env, request, applied, client>>

\* renderSubtitleContent and the return statement of transcribeMedia
Render(r) ==
  /\ run[r].pc = "render"
  /\ LET me == run[r]
         rendered == renderSubtitleContent(me.refinedResult, me.format)
     IN run' = [run EXCEPT ![r] =
          IF rendered.threw
          THEN ThrowInsideTry(me, SegmentsRequired)
          ELSE Finally(me, [kind |-> "return", value |-> ReturnValue(me, rendered.value)])]
  /\ UNCHANGED <<files, env, request, applied, client>>

\* the finally block as it would be without the catch after cleanup(): a
\* rejection of fsp.unlink replaces the outcome of the try block
Cleanup_ThrowsUnlinkError(r, unlinked) ==
  /\ run[r].pc = "cleanup"
  /\ LET me == run[r]
         path == me.audioPreparation.cleanup.unlink
         removed == unlinked /\ files[path] # NoFile
     IN /\ files' = IF removed THEN [files EXCEPT ![path] = NoFile] ELSE files
        /\ run' = [run EXCEPT ![r] =
             Settle([me EXCEPT !.unlinkFailed = ~removed],
                    IF removed THEN me.pending
                    ELSE [kind |-> "throw", message |-> "unlink failed"])]
  /\ UNCHANGED <<env, request, applied, client>>

\* the finally block: fsp.unlink(tempPath) ends, any rejection is swallowed,
\* and the function ends with the outcome of the try block
Cleanup(r, unlinked) ==
  /\ run[r].pc = "cleanup"
  /\ LET me == run[r]
         path == me.audioPreparation.cleanup.unlink
         removed == unlinked /\ files[path] # NoFile
     IN /\ files' = IF removed THEN [files EXCEPT ![path] = NoFile] ELSE files
        /\ run' = [run EXCEPT ![r] =
             Settle([me EXCEPT !.unlinkFailed = ~removed], me.pending)]
  /\ UNCHANGED <<env, request, applied, client>>

----------------------------------------------------------------------------
(* One run at a time, with every response of the services *)

Next ==
  \E r \in {1} :
    \/ \E p \in InputPaths \cup {Undefined}, f \in FormatArguments : Invoke(r, p, f)
    \/ AssertPathExists(r)
    \/ StatInput(r)
    \/ \E found \in BOOLEAN : AssertFfmpeg(r, found)
    \/ \E size \in ConvertedSizes : FfmpegSucceeds(r, size)
    \/ \E partial \in BOOLEAN : FfmpegFails(r, partial)
    \/ StatConverted(r)
    \/ TimedCallFails(r)
    \/ \E t \in TimedTranscriptions : TimedCallReturns(r, t)
    \/ HighAccuracyCallFails(r)
    \/ \E t \in HighAccuracyTranscriptions : HighAccuracyCallReturns(r, t)
    \/ CorrectionCallFails(r)
    \/ \E c \in CorrectionResponses : CorrectionCallReturns(r, c)
    \/ Render(r)
    \/ \E unlinked \in BOOLEAN : Cleanup(r, unlinked)

Spec == Init /\ [][Next]_vars

----------------------------------------------------------------------------
(* Runs in flight together, each with a few responses of the services *)

InitConcurrent ==
  /\ files = InitialFiles
  /\ env = [ OPENAI_API_KEY |-> Str(<<"k">>), OPENAI_TIMED_MODEL |-> Undefined,
             OPENAI_HIGH_ACCURACY_MODEL |-> Undefined,
             OPENAI_CORRECTION_MODEL |-> Undefined ]
  /\ run = [r \in Runs |-> NewRun]
  /\ request = [q \in Runs |-> NewRequest]
  /\ applied = NotApplied
  /\ client = NewClient

PlainTranscription ==
  [ text |-> U,
    segments |-> Array(<<RawSegment(0, Num(0), U, U, Num(25000), U, Str(<<"a">>), U)>>) ]

PlainCorrection ==
  [ output_text |->
      [ t |-> "json",
        segments |-> Array(<<[id |-> 0, start |-> U, end |-> U, text |-> Str(<<"x">>)]>>) ] ]

NextConcurrent ==
  \E r \in Runs :
    \/ \E p \in {Mp3, Mp4, Wav} : Invoke(r, p, Undefined)
    \/ AssertPathExists(r)
    \/ StatInput(r)
    \/ AssertFfmpeg(r, TRUE)
    \/ FfmpegSucceeds(r, OPENAI_UPLOAD_LIMIT_BYTES)
    \/ FfmpegFails(r, FALSE)
    \/ StatConverted(r)
    \/ TimedCallFails(r)
    \/ TimedCallReturns(r, PlainTranscription)
    \/ HighAccuracyCallFails(r)
    \/ HighAccuracyCallReturns(r, [text |-> Str(<<"h">>), segments |-> U])
    \/ CorrectionCallFails(r)
    \/ CorrectionCallReturns(r, PlainCorrection)
    \/ Render(r)
    \/ \E unlinked \in BOOLEAN : Cleanup(r, unlinked)

SpecConcurrent == InitConcurrent /\ [][NextConcurrent]_vars

----------------------------------------------------------------------------
(* The POST /api/transcribe handler of the server *)

\* the emitter as it would be if it returned on an error status
emitStage_DropsErrors(req, stage, status) ==
  IF status = "error" THEN req
  ELSE LET called == [req EXCEPT !.emitted = Append(@, [stage |-> stage, status |-> status])]
       IN IF req.socketId = Undefined THEN called
          ELSE [called EXCEPT !.events = Append(@, [stage |-> stage, status |-> status])]

\* the emitter createStageEmitter returns: nothing is sent without a socketId
emitStage(req, stage, status) ==
  LET called == [req EXCEPT !.emitted = Append(@, [stage |-> stage, status |-> status])]
  IN IF req.socketId = Undefined THEN called
     ELSE [called EXCEPT !.events = Append(@, [stage |-> stage, status |-> status])]

\* res.status(status).json(body)
Respond(req, status, body) == [req EXCEPT !.status = status, !.body = body]

\* safeUnlink as it would be if it returned without calling fsp.unlink
safeUnlink_Forgets(fs, filePath, permitted) == fs

\* safeUnlink: the file system after it; an error of fsp.unlink is swallowed
safeUnlink(fs, filePath, permitted) ==
  IF permitted /\ fs[filePath] # NoFile THEN [fs EXCEPT ![filePath] = NoFile] ELSE fs

\* the size of the file multer writes
UploadSize == OPENAI_UPLOAD_LIMIT_BYTES

\* the values of the form fields socketId, userUid and format
SocketIds == {Undefined, Str(<<"s">>)}

UserUids == {Undefined, Str(<<"u">>)}

FormatFields == {Undefined, Str(<<"V", "T", "T">>), Str(<<"p", "d", "f">>)}

\* the request arrives, multer having stored the uploaded file if there is
\* one: the handler runs up to its first await, which is safeUnlink after a
\* rejected format or transcribeMedia's first await
Receive(q, carriesFile, format, socketId, userUid) ==
  /\ request[q].pc = "NotReceived"
  /\ run[q].pc = "NotStarted"
  /\ LET req == [request[q] EXCEPT !.socketId = socketId, !.userUid = userUid]
         uploaded == emitStage([req EXCEPT !.file = Upload(q)], "upload", "done")
         normalized == IF format = Undefined
                       THEN [threw |-> FALSE, value |-> <<".", "s", "r", "t">>]
                       ELSE normalizeSubtitleFormat(format)
     IN IF ~carriesFile
        THEN /\ request' = [request EXCEPT ![q] =
                  [Respond(emitStage(req, "complete", "error"), 400,
                           [error |-> "Media file is required"])
                     EXCEPT !.pc = "finished"]]
             /\ UNCHANGED <<files, run>>
        ELSE /\ files' = [files EXCEPT ![Upload(q)] = UploadSize]
             /\ IF normalized.threw
                THEN /\ request' = [request EXCEPT ![q] =
                          [emitStage(uploaded, "complete", "error")
                             EXCEPT !.pc = "rejecting"]]
                     /\ UNCHANGED run
                ELSE /\ request' = [request EXCEPT ![q] =
                          [uploaded EXCEPT !.pc = "transcribing",
                                           !.format = normalized.value]]
                     /\ run' = [run EXCEPT ![q] =
                          Invoked(run[q], Upload(q), Str(normalized.value))]
  /\ UNCHANGED <<env, applied, client>>

\* after a rejected format: safeUnlink(req.file.path) ends and the 400 is sent
RejectFormat(q, permitted) ==
  /\ request[q].pc = "rejecting"
  /\ files' = safeUnlink(files, request[q].file, permitted)
  /\ request' = [request EXCEPT ![q] =
       [Respond(request[q], 400, [error |-> "Unsupported subtitle format"])
          EXCEPT !.pc = "finished", !.unlinkFailed = ~permitted]]
  /\ UNCHANGED <<env, run, applied, client>>

\* what becomes of the copy kept for a signed-in user
StorageOutcomes(req) ==
  IF req.userUid = Undefined THEN {"none"}
  ELSE {"saved", "copy failed", "insert failed", "insert failed, copy left"}

\* the loop that looks for a path no file has: fsp.access(uniqueStoredPath)
\* until it throws, the name taking the next counter each time
RECURSIVE UniqueStoredPath(_, _, _, _)
UniqueStoredPath(fs, q, uniqueStoredPath, counter) ==
  IF fs[uniqueStoredPath] # NoFile
  THEN UniqueStoredPath(fs, q, StoredAs(q, counter), counter + 1)
  ELSE uniqueStoredPath

\* the member storedPath of the row saveVideo inserts for the copy
RowStoredPath(q, storedPath) == StoredFilename(q)

\* transcribeMedia has returned: the upload is copied to the video store and
\* a row inserted for a signed-in user (a failure of either is logged and the
\* copy unlinked), `complete` is emitted and the transcript sent
Succeed(q, outcome) ==
  /\ request[q].pc = "transcribing"
  /\ run[q].pc = "returned"
  /\ outcome \in StorageOutcomes(request[q])
  /\ LET req == request[q]
         result == run[q].result
         storedPath == UniqueStoredPath(files, q, Stored(q), 1)
         savedVideoId == IF outcome = "saved" THEN Num(q) ELSE Null
         copied == outcome \in {"saved", "insert failed", "insert failed, copy left"}
         kept == outcome \in {"saved", "insert failed, copy left"}
         attempted == IF outcome = "none" THEN req
                      ELSE [req EXCEPT !.storage = outcome,
                                       !.copiedTo = IF copied THEN storedPath ELSE Null]
         stored == IF outcome = "saved"
                   THEN [attempted EXCEPT !.row =
                           [id |-> q, status |-> "completed",
                            storedPath |-> RowStoredPath(q, storedPath)]]
                   ELSE attempted
     IN /\ files' = IF kept THEN [files EXCEPT ![storedPath] = files[req.file]] ELSE files
        /\ request' = [request EXCEPT ![q] =
             [Respond(emitStage(stored, "complete", "done"), 200,
                      [ text |-> result.text, segments |-> result.segments,
                        subtitle |-> result.subtitle, warnings |-> result.warnings,
                        models |-> result.models, videoId |-> savedVideoId ])
                EXCEPT !.pc = "finally"]]
  /\ UNCHANGED <<env, run, applied, client>>

\* transcribeMedia has thrown: a failed row is inserted for a signed-in user
\* (a failure to is logged), `complete` is emitted and the 500 sent
Fail(q, inserted) ==
  /\ request[q].pc = "transcribing"
  /\ run[q].pc = "thrown"
  /\ inserted => request[q].userUid # Undefined
  /\ LET req == request[q]
         recorded == IF inserted
                     THEN [req EXCEPT !.row = [id |-> q, status |-> "failed",
                                               storedPath |-> Null]]
                     ELSE req
     IN request' = [request EXCEPT ![q] =
          [Respond(emitStage(recorded, "complete", "error"), 500,
                   [error |-> run[q].error])
             EXCEPT !.pc = "finally"]]
  /\ UNCHANGED <<files, env, run, applied, client>>

\* the finally block of the handler: safeUnlink(req.file.path)
FinallyUnlink(q, permitted) ==
  /\ request[q].pc = "finally"
  /\ files' = safeUnlink(files, request[q].file, permitted)
  /\ request' = [request EXCEPT ![q] =
       [request[q] EXCEPT !.pc = "finished", !.unlinkFailed = ~permitted]]
  /\ UNCHANGED <<env, run, applied, client>>

\* the files on disk when request 1 arrives: the first `taken` of the names
\* its copy could take belong to files stored before
FilesWithTaken(taken) ==
  [p \in AllPaths |->
     IF \E k \in 1..taken : p = StoredCandidates(1)[k]
     THEN UploadSize ELSE InitialFiles[p]]

InitServer ==
  /\ files \in {FilesWithTaken(taken) : taken \in 0..MaxTaken}
  /\ env \in [ OPENAI_API_KEY : {Undefined, Str(<<"k">>)},
               OPENAI_TIMED_MODEL : {Undefined},
               OPENAI_HIGH_ACCURACY_MODEL : {Undefined},
               OPENAI_CORRECTION_MODEL : {Undefined} ]
  /\ run = [r \in Runs |-> NewRun]
  /\ request = [q \in Runs |-> NewRequest]
  /\ applied = NotApplied
  /\ client = NewClient

\* a correction response that is accepted and leaves no segment
EmptyCorrection == [output_text |-> [t |-> "json", segments |-> Array(<<>>)]]

\* one request, its handler and the run it awaits
NextServer ==
  \E q \in {1} :
    \/ \E carriesFile \in BOOLEAN, f \in FormatFields, s \in SocketIds, u \in UserUids :
         Receive(q, carriesFile, f, s, u)
    \/ \E permitted \in BOOLEAN : RejectFormat(q, permitted)
    \/ AssertPathExists(q)
    \/ StatInput(q)
    \/ \E found \in BOOLEAN : AssertFfmpeg(q, found)
    \/ \E size \in ConvertedSizes : FfmpegSucceeds(q, size)
    \/ FfmpegFails(q, FALSE)
    \/ StatConverted(q)
    \/ TimedCallFails(q)
    \/ TimedCallReturns(q, PlainTranscription)
    \/ HighAccuracyCallFails(q)
    \/ HighAccuracyCallReturns(q, [text |-> Str(<<"h">>), segments |-> U])
    \/ CorrectionCallFails(q)
    \/ \E c \in {PlainCorrection, EmptyCorrection} : CorrectionCallReturns(q, c)
    \/ Render(q)
    \/ \E unlinked \in BOOLEAN : Cleanup(q, unlinked)
    \/ \E outcome \in {"none", "saved", "copy failed", "insert failed",
                       "insert failed, copy left"} : Succeed(q, outcome)
    \/ \E inserted \in BOOLEAN : Fail(q, inserted)
    \/ \E permitted \in BOOLEAN : FinallyUnlink(q, permitted)

SpecServer == InitServer /\ [][NextServer]_vars

----------------------------------------------------------------------------
(* The pure functions applied to arguments of their own *)

\* the longest time formatted, in hours
MaxHours == 123

\* times in ticks: whole milliseconds and the fractions between them, from
\* zero to beyond a hundred hours, and times before zero
TimestampSeconds ==
  { ((((h * 60) + m) * 60 + sec) * 1000 + ms) * TicksPerMilli + fraction :
      h \in {0, 1, 99, 100, MaxHours}, m \in {0, 59}, sec \in {0, 59},
      ms \in {0, 7, 999}, fraction \in 0..(TicksPerMilli - 1) }
  \cup { 0 - 1, 0 - 2, 0 - TicksPerMilli, 0 - (3600000 * TicksPerMilli) }

\* "," in an srt file, "." in a vtt file
MillisecondSeparators == {",", "."}

\* transcripts to render: without a segments member, with no segment, with one
RenderedResults ==
  LET segment == [id |-> 0, start |-> 0, end |-> 1000 * TicksPerMilli, text |-> <<"a">>]
  IN UNION { { [text |-> t], [text |-> t, segments |-> <<>>],
               [text |-> t, segments |-> <<segment>>] } : t \in {<<>>, <<"a">>} }

RenderedFormats ==
  SUBTITLE_FORMATS \cup { <<"S", "R", "T">>, <<".", "p", "d", "f">> }

\* the most segments of a list handed to buildSrtFromSegments
MaxCues == 2

\* segments to build blocks from: ids that are not their positions, a text
\* with runs of whitespace in it, a time beyond an hour
CueSegments ==
  { [id |-> 0, start |-> 0, end |-> 1000 * TicksPerMilli, text |-> <<"a">>],
    [id |-> 5, start |-> 1500 * TicksPerMilli, end |-> 3725250 * TicksPerMilli,
     text |-> <<"b", " ", "\n", "c">>],
    [id |-> 1, start |-> 1000 * TicksPerMilli, end |-> 1500 * TicksPerMilli,
     text |-> <<"a", "\t", "b">>] }

CueSegmentLists == SeqsUpTo(CueSegments, MaxCues) \ {<<>>}

\* timed results to refine: two segments, and one
RefinementBases ==
  LET first == [id |-> 0, start |-> 0, end |-> 1000 * TicksPerMilli, text |-> <<"a">>]
      second == [id |-> 1, start |-> 1000 * TicksPerMilli, end |-> 2000 * TicksPerMilli,
                 text |-> <<"b">>]
  IN { [text |-> <<"a", " ", "b">>, segments |-> <<first, second>>],
       [text |-> <<"a">>, segments |-> <<first>>] }

InitFunctions ==
  /\ files = InitialFiles
  /\ env = [ OPENAI_API_KEY |-> Undefined, OPENAI_TIMED_MODEL |-> Undefined,
             OPENAI_HIGH_ACCURACY_MODEL |-> Undefined,
             OPENAI_CORRECTION_MODEL |-> Undefined ]
  /\ run = [r \in Runs |-> NewRun]
  /\ request = [q \in Runs |-> NewRequest]
  /\ applied = NotApplied
  /\ client = NewClient

ApplyFormatTimestamp(seconds, millisecondSeparator) ==
  /\ applied' = [ fn |-> "formatTimestamp", seconds |-> seconds,
                  millisecondSeparator |-> millisecondSeparator,
                  value |-> formatTimestamp(seconds, millisecondSeparator) ]
  /\ UNCHANGED <<files, env, run, request, client>>

ApplyRenderSubtitleContent(result, format) ==
  /\ applied' = [ fn |-> "renderSubtitleContent", result |-> result, format |-> format,
                  rendered |-> renderSubtitleContent(result, format) ]
  /\ UNCHANGED <<files, env, run, request, client>>

\* buildSrtFromSegments, called on its own
ApplyBuildSrtFromSegments(segments) ==
  /\ applied' = [ fn |-> "buildSrtFromSegments", segments |-> segments,
                  content |-> buildSrtFromSegments(segments) ]
  /\ UNCHANGED <<files, env, run, request, client>>

\* the part of refineTranscriptWithGPT that follows the call
ApplyRefineTranscriptWithGPT(baseResult, response) ==
  /\ applied' = [ fn |-> "refineTranscriptWithGPT", baseResult |-> baseResult,
                  response |-> response,
                  refined |-> refineTranscriptWithGPT(baseResult, response) ]
  /\ UNCHANGED <<files, env, run, request, client>>

NextFunctions ==
  \/ \E seconds \in TimestampSeconds, separator \in MillisecondSeparators :
       ApplyFormatTimestamp(seconds, separator)
  \/ \E result \in RenderedResults, format \in RenderedFormats :
       ApplyRenderSubtitleContent(result, format)
  \/ \E segments \in CueSegmentLists : ApplyBuildSrtFromSegments(segments)
  \/ \E baseResult \in RefinementBases, response \in CorrectionResponses :
       ApplyRefineTranscriptWithGPT(baseResult, response)

SpecFunctions == InitFunctions /\ [][NextFunctions]_vars

----------------------------------------------------------------------------
(* The stage list of the client *)

\* the most stage events the client handles
MaxEvents == 3

STAGE_ORDER == [i \in DOMAIN STAGE_DEFINITIONS |-> STAGE_DEFINITIONS[i].id]

\* Array.prototype.indexOf: the index from 0 of the first element that is x,
\* -1 when there is none
IndexOf(q, x) ==
  IF \E i \in DOMAIN q : q[i] = x
  THEN (CHOOSE i \in DOMAIN q : q[i] = x /\ \A j \in DOMAIN q : q[j] = x => i <= j) - 1
  ELSE -1

mapStageStatus(status) ==
  CASE status = "start" -> "active"
    [] status = "done" -> "done"
    [] status = "skipped" -> "skipped"
    [] status = "error" -> "error"
    [] OTHER -> status

createUploadActiveStages ==
  [i \in DOMAIN STAGE_DEFINITIONS |->
     [STAGE_DEFINITIONS[i] EXCEPT
        !.status = IF STAGE_DEFINITIONS[i].id = "upload" THEN "active" ELSE "idle",
        !.message = Null]]

\* handleStageEvent as it would be if it changed the stage of the event only
handleStageEvent_OnlyTheTarget(prev, event) ==
  [i \in DOMAIN prev |->
     IF prev[i].id = event.stage
     THEN [prev[i] EXCEPT !.status = mapStageStatus(event.status),
                          !.message = Coalesce(event.message, prev[i].message)]
     ELSE prev[i]]

\* the updater handleStageEvent hands to setStages: the next stage list
handleStageEvent(prev, event) ==
  LET targetIndex == IndexOf(STAGE_ORDER, event.stage)
  IN [i \in DOMAIN prev |->
        IF prev[i].id = event.stage
        THEN [prev[i] EXCEPT !.status = mapStageStatus(event.status),
                             !.message = Coalesce(event.message, prev[i].message)]
        ELSE IF /\ event.status = "start"
                /\ targetIndex # -1
                /\ i - 1 < targetIndex
                /\ prev[i].status = "active"
        THEN [prev[i] EXCEPT !.status = "done"]
        ELSE prev[i]]

\* the stage events the socket can deliver: every stage of the pipeline the
\* client lists, one it does not list, every status; a message comes with
\* an error
StageEvents ==
  { [stage |-> stage, status |-> status,
     message |-> IF status = "error" THEN Str(<<"m">>) ELSE Undefined] :
      stage \in {STAGE_ORDER[i] : i \in DOMAIN STAGE_ORDER} \cup {"rendering"},
      status \in {"start", "done", "skipped", "error"} }

\* handleSubmit up to xhr.send: setStages(createUploadActiveStages())
Submit ==
  /\ client' = [client EXCEPT !.stages = createUploadActiveStages,
                              !.submitted = TRUE,
                              !.lastEvent = Null,
                              !.lastStart = -1,
                              !.startsInOrder = TRUE]
  /\ UNCHANGED <<files, env, run, request, applied>>

\* the socket delivers `transcribe-status`: handleStageEvent(event)
HandleStageEvent(event) ==
  /\ client.handled < MaxEvents
  /\ LET targetIndex == IndexOf(STAGE_ORDER, event.stage)
         isStart == event.status = "start"
     IN client' = [client EXCEPT
          !.stages = handleStageEvent(@, event),
          !.handled = @ + 1,
          !.lastEvent = event,
          !.lastStart = IF isStart THEN targetIndex ELSE @,
          !.startsInOrder = @ /\ (isStart => targetIndex >= client.lastStart)]
  /\ UNCHANGED <<files, env, run, request, applied>>

\* xhr.onerror, xhr.onabort and xhr.onload with a status outside 2xx: the
\* stage `complete` becomes error
RequestFailed ==
  /\ client.submitted
  /\ client' = [client EXCEPT
       !.stages = [i \in DOMAIN @ |->
                     IF @[i].id = "complete"
                     THEN [@[i] EXCEPT !.status = "error", !.message = Str(<<"m">>)]
                     ELSE @[i]],
       !.lastEvent = Null]
  /\ UNCHANGED <<files, env, run, request, applied>>

InitClient ==
  /\ files = InitialFiles
  /\ env = [ OPENAI_API_KEY |-> Undefined, OPENAI_TIMED_MODEL |-> Undefined,
             OPENAI_HIGH_ACCURACY_MODEL |-> Undefined,
             OPENAI_CORRECTION_MODEL |-> Undefined ]
  /\ run = [r \in Runs |-> NewRun]
  /\ request = [q \in Runs |-> NewRequest]
  /\ applied = NotApplied
  /\ client = NewClient

NextClient ==
  \/ Submit
  \/ \E event \in StageEvents : HandleStageEvent(event)
  \/ RequestFailed

SpecClient == InitClient /\ [][NextClient]_vars

----------------------------------------------------------------------------
(* Properties *)

Range(q) == {q[i] : i \in DOMAIN q}

Ended(r) == run[r].pc \in {"returned", "thrown"}

ServiceCalls(r) == Range(run[r].calls) \cap {"timed", "highAccuracy", "correction"}

\* C1: when the correction model's output is accepted, every returned
\* segment has the start and end of a timed-stage segment with the same id,
\* whatever start and end the model's response carried.
C1_AcceptedCorrectionKeepsBaseTiming ==
  \A r \in Runs :
    (run[r].pc = "returned" /\ run[r].correction.status = "accepted") =>
      \A i \in 1..Len(run[r].result.segments) :
        LET s == run[r].result.segments[i]
            base == run[r].timedResult.segments
        IN \E k \in 1..Len(base) :
             base[k].id = s.id /\ base[k].start = s.start /\ base[k].end = s.end

\* C1 witness: a run returned an accepted correction whose response gave a
\* known segment a start and an end different from the base segment's.
C1_Witness ==
  \E r \in Runs :
    /\ run[r].pc = "returned"
    /\ run[r].correction.status = "accepted"
    /\ run[r].correction.foreignTiming
    /\ Len(run[r].result.segments) > 0

\* C2: when the correction response names an id no base segment has, the
\* run is not aborted, a warning is recorded, and what is rendered and
\* returned is the timed stage's text and segments, unchanged.
C2_UnknownIdDiscardsWholeCorrection ==
  \A r \in Runs :
    run[r].correction.unknownId =>
      /\ run[r].pc \in {"render", "cleanup", "returned"}
      /\ run[r].refinedResult = run[r].timedResult
      /\ CorrectionWarning \in Range(run[r].warnings)
      /\ run[r].pc = "cleanup" =>
           /\ run[r].pending.kind = "return"
           /\ run[r].pending.value.segments = run[r].timedResult.segments
      /\ run[r].pc = "returned" =>
           /\ run[r].result.text = run[r].timedResult.text
           /\ run[r].result.segments = run[r].timedResult.segments
           /\ CorrectionWarning \in Range(run[r].result.warnings)

\* C2 witness: a run returned after a correction response that named an
\* unknown id beside a known id for which it carried a new text.
C2_Witness ==
  \E r \in Runs :
    /\ run[r].pc = "returned"
    /\ run[r].correction.unknownId
    /\ run[r].correction.knownIds

\* C3: when the correction stage throws or its output is rejected, the
\* returned models record reports the correction model as null.
C3_FailedCorrectionReportedAsNull ==
  \A r \in Runs :
    (run[r].pc = "returned" /\ run[r].correction.status = "failed") =>
      run[r].result.models.correction = Null

\* C4: when the high-accuracy call throws or returns empty text, the run
\* still returns a result, whose warnings hold the failure and whose models
\* record has highAccuracy = null.
C4_HighAccuracyFailureStillReturns ==
  \A r \in Runs :
    (Ended(r) /\ run[r].highAccuracy = "failed") =>
      /\ run[r].pc = "returned"
      /\ HighAccuracyWarning \in Range(run[r].result.warnings)
      /\ run[r].result.models.highAccuracy = Null

\* C5: once a run has ended, the converted audio file its transcoder wrote
\* no longer exists (left aside a run whose unlink itself failed).
C5_TempFileRemovedOnEveryExit ==
  \A r \in Runs :
    (Ended(r) /\ run[r].convertedSize # NoFile /\ ~run[r].unlinkFailed) =>
      files[run[r].tempPath] = NoFile

\* C6: when the converted audio is larger than the upload limit, the run
\* fails with the size-limit error and has issued no call to the
\* transcription service or to the correction service.
C6_OversizeFailsBeforeAnyServiceCall ==
  \A r \in Runs :
    run[r].convertedSize > OPENAI_UPLOAD_LIMIT_BYTES =>
      /\ run[r].pc = "thrown"
      /\ run[r].error = SizeLimitExceeded
      /\ ServiceCalls(r) = {}

\* C6 witness: a run whose converted audio was over the limit has failed.
C6_Witness ==
  \E r \in Runs :
    /\ run[r].convertedSize = OPENAI_UPLOAD_LIMIT_BYTES + 1
    /\ run[r].pc = "thrown"

\* C7: a run ends in Error only from Preparing or TimedTranscribing.
C7_ErrorOnlyFromPreparingOrTimed ==
  \A r \in Runs :
    run[r].pc = "thrown" => run[r].failedAt \in {"Preparing", "TimedTranscribing"}

\* C8: in every returned transcript each segment has start <= end and no
\* two segments have the same id.
C8_ReturnedSegmentsWellFormed ==
  \A r \in Runs :
    run[r].pc = "returned" =>
      LET segs == run[r].result.segments
      IN /\ \A i \in 1..Len(segs) : segs[i].start <= segs[i].end
         /\ \A i, j \in 1..Len(segs) : i # j => segs[i].id # segs[j].id

\* is the run between the spawn of its transcoder and its end
UsesTempFile(r) ==
  run[r].pc \in {"ffmpeg", "statConverted", "timed", "highAccuracy", "correction",
                 "render", "cleanup"}
  /\ run[r].tempPath # Null

\* C9: two runs in flight together never use the same temporary audio path.
C9_ConcurrentRunsUseDistinctTempPaths ==
  \A r1, r2 \in Runs :
    (r1 # r2 /\ UsesTempFile(r1) /\ UsesTempFile(r2)) =>
      run[r1].tempPath # run[r2].tempPath

\* C10: when the timed response has no usable segment the run fails there:
\* no high-accuracy call, no correction call, no rendering, no result.
C10_NoUsableSegmentsIsFatal ==
  \A r \in Runs :
    run[r].timedUsable = 0 =>
      /\ run[r].pc \in {"cleanup", "thrown"}
      /\ run[r].pc = "cleanup" =>
           run[r].pending = [kind |-> "throw", message |-> NoTimestampsAvailable]
      /\ run[r].pc = "thrown" => run[r].error = NoTimestampsAvailable
      /\ run[r].failedAt = "TimedTranscribing"
      /\ run[r].result = Null
      /\ ServiceCalls(r) = {"timed"}

\* C10 witness: a run has failed on a timed response without usable segments.
C10_Witness ==
  \E r \in Runs :
    /\ run[r].timedUsable = 0
    /\ run[r].pc = "thrown"
    /\ run[r].error = NoTimestampsAvailable

\* the service calls of a run, in the order they were issued
ServiceCallsInOrder(r) ==
  LET IsServiceCall(c) == c \in {"timed", "highAccuracy", "correction"}
  IN SelectSeq(run[r].calls, IsServiceCall)

\* has the run reached the rendering of its transcript
ReachedRendering(r) ==
  \/ run[r].pc \in {"render", "returned"}
  \/ run[r].pc = "cleanup" /\ run[r].pending.kind = "return"
  \/ run[r].failedAt = "Rendering"

\* C11: the stages of a run are strictly sequential: the timed call is issued
\* only after audio preparation has finished, the high-accuracy call only
\* after the timed result has been parsed and validated, the correction call
\* only after the high-accuracy stage has resolved, failed softly or been
\* skipped, and rendering only after the correction has resolved, failed
\* softly or been skipped; no call is issued twice.
C11_StagesStrictlySequential ==
  \A r \in Runs :
    /\ ServiceCallsInOrder(r) \in
         { <<>>, <<"timed">>, <<"timed", "highAccuracy">>, <<"timed", "correction">>,
           <<"timed", "highAccuracy", "correction">> }
    /\ "timed" \in Range(run[r].calls) =>
         /\ run[r].audioPreparation # Null
         /\ Stage(run[r].pc) # "Preparing"
         /\ run[r].failedAt # "Preparing"
    /\ "highAccuracy" \in Range(run[r].calls) => run[r].timedResult # Null
    /\ "correction" \in Range(run[r].calls) =>
         /\ run[r].timedResult # Null
         /\ run[r].highAccuracy \in {"skipped", "failed", "done"}
    /\ ReachedRendering(r) =>
         /\ run[r].timedResult # Null
         /\ run[r].highAccuracy \in {"skipped", "failed", "done"}
         /\ run[r].correction.status \in {"skipped", "failed", "accepted"}
    /\ run[r].pc = "timed" => run[r].timedResult = Null
    /\ run[r].pc = "highAccuracy" =>
         run[r].highAccuracy = "none" /\ run[r].correction.status = "none"
    /\ run[r].pc = "correction" => run[r].correction.status = "none"

\* C11 witness: a run that converted its input has returned after the timed,
\* the high-accuracy and the correction call, in that order.
C11_Witness ==
  \E r \in Runs :
    /\ run[r].pc = "returned"
    /\ run[r].calls = <<"ffmpeg -version", "ffmpeg", "timed", "highAccuracy", "correction">>

\* the number of elements of q that are x
Occurrences(q, x) == Cardinality({i \in DOMAIN q : q[i] = x})

\* the ways the correction call or the parsing of its response fails
TransportOrParsingFailures == {"call", "no output", "parse", "no segments array"}

\* C12: when the correction call throws, or its response text is empty, is
\* not valid JSON or has no segments array, the run is not aborted: exactly
\* one warning is added for it and the returned text and segments are the
\* timed stage's.
C12_CorrectionFailureIsSoft ==
  \A r \in Runs :
    (/\ run[r].correction.status = "failed"
     /\ run[r].correction.why \in TransportOrParsingFailures) =>
      /\ run[r].pc \in {"render", "cleanup", "returned"}
      /\ run[r].failedAt = ""
      /\ run[r].refinedResult = run[r].timedResult
      /\ Occurrences(run[r].warnings, CorrectionWarning) = 1
      /\ run[r].pc = "cleanup" =>
           /\ run[r].pending.kind = "return"
           /\ run[r].pending.value.text = run[r].timedResult.text
           /\ run[r].pending.value.segments = run[r].timedResult.segments
      /\ run[r].pc = "returned" =>
           /\ run[r].result.text = run[r].timedResult.text
           /\ run[r].result.segments = run[r].timedResult.segments
           /\ Occurrences(run[r].result.warnings, CorrectionWarning) = 1

\* C12 witness: a run has returned after a correction response whose JSON
\* had no segments array.
C12_Witness ==
  \E r \in Runs :
    /\ run[r].pc = "returned"
    /\ run[r].correction.status = "failed"
    /\ run[r].correction.why = "no segments array"
    /\ run[r].result.segments = run[r].timedResult.segments

\* C13: when the high-accuracy stage and the correction stage both fail, the
\* run returns with the two warnings, the high-accuracy one first, and with
\* the text and segments of the timed stage.
C13_WarningsAccumulate ==
  \A r \in Runs :
    (run[r].highAccuracy = "failed" /\ run[r].correction.status = "failed") =>
      /\ run[r].pc \in {"render", "cleanup", "returned"}
      /\ run[r].warnings = <<HighAccuracyWarning, CorrectionWarning>>
      /\ run[r].pc = "cleanup" => run[r].pending.kind = "return"
      /\ run[r].pc = "returned" =>
           /\ run[r].result.warnings = <<HighAccuracyWarning, CorrectionWarning>>
           /\ run[r].result.text = run[r].timedResult.text
           /\ run[r].result.segments = run[r].timedResult.segments

\* C13 witness: a run has returned after the high-accuracy call and the
\* correction call both threw.
C13_Witness ==
  \E r \in Runs :
    /\ run[r].pc = "returned"
    /\ run[r].highAccuracy = "failed"
    /\ run[r].correction.status = "failed"
    /\ run[r].correction.why = "call"

\* is this transcript rendered from no segment
NoSegmentToRender(result) ==
  ~("segments" \in DOMAIN result) \/ result.segments = <<>>

\* C14: rendering to txt a transcript with zero segments succeeds and gives
\* its text; rendering to srt or vtt a transcript whose segment list is empty
\* or missing throws and gives no content.
C14_RenderingWithoutSegments ==
  (applied.fn = "renderSubtitleContent" /\ NoSegmentToRender(applied.result)) =>
    /\ applied.format = <<".", "t", "x", "t">> =>
         /\ ~applied.rendered.threw
         /\ applied.rendered.value = applied.result.text
    /\ applied.format \in {<<".", "s", "r", "t">>, <<".", "v", "t", "t">>, <<"S", "R", "T">>} =>
         /\ applied.rendered.threw
         /\ applied.rendered.value = Null

\* C14 witness: a transcript without a segments member was rendered to vtt.
C14_Witness ==
  /\ applied.fn = "renderSubtitleContent"
  /\ ~("segments" \in DOMAIN applied.result)
  /\ applied.format = <<".", "v", "t", "t">>
  /\ applied.rendered.threw

\* the pieces of s between the characters of `delimiters`
SplitAt(s, delimiters) ==
  LET IsCut(i) == s[i] \in delimiters
      cuts == <<0>> \o SelectSeq([i \in 1..Len(s) |-> i], IsCut) \o <<Len(s) + 1>>
  IN [k \in 1..(Len(cuts) - 1) |-> SubSeq(s, cuts[k] + 1, cuts[k + 1] - 1)]

DigitValue(c) == CHOOSE d \in 0..9 : DecimalDigits[d + 1] = c

\* the number a string of decimal digits writes
RECURSIVE ParseDecimal(_)
ParseDecimal(s) ==
  IF s = <<>> THEN 0
  ELSE 10 * ParseDecimal(SubSeq(s, 1, Len(s) - 1)) + DigitValue(s[Len(s)])

\* the fields HH, MM, SS and mmm of a timestamp, as strings
TimestampFields(stamp, separator) == SplitAt(stamp, {":", separator})

\* a timestamp HH:MM:SS<separator>mmm read back as milliseconds
ParseTimestamp(stamp, separator) ==
  LET fields == TimestampFields(stamp, separator)
  IN ParseDecimal(fields[1]) * 3600000 + ParseDecimal(fields[2]) * 60000
       + ParseDecimal(fields[3]) * 1000 + ParseDecimal(fields[4])

\* C15: for every whole number m of milliseconds, formatting m / 1000 seconds
\* with either separator and parsing the string back as
\* hours * 3,600,000 + minutes * 60,000 + seconds * 1,000 + millis gives m,
\* also from a hundred hours on.
C15_TimestampRoundTrip ==
  (/\ applied.fn = "formatTimestamp"
   /\ applied.seconds >= 0
   /\ applied.seconds % TicksPerMilli = 0) =>
    /\ Len(TimestampFields(applied.value, applied.millisecondSeparator)) = 4
    /\ ParseTimestamp(applied.value, applied.millisecondSeparator)
         = applied.seconds \div TicksPerMilli

\* C15 witness: a whole number of milliseconds beyond a hundred hours was
\* formatted and reads back as itself.
C15_Witness ==
  /\ applied.fn = "formatTimestamp"
  /\ applied.seconds % TicksPerMilli = 0
  /\ applied.seconds > 100 * 3600000 * TicksPerMilli
  /\ ParseTimestamp(applied.value, applied.millisecondSeparator)
       = applied.seconds \div TicksPerMilli

\* is T the integer nearest to seconds * 1000, a half going up, or 0 for a
\* time before zero
IsClampedRounding(T, seconds) ==
  IF seconds < 0 THEN T = 0
  ELSE /\ T >= 0
       /\ 2 * (seconds - T * TicksPerMilli) < TicksPerMilli
       /\ 2 * (seconds - T * TicksPerMilli) >= 0 - TicksPerMilli

\* C16: formatTimestamp writes T = max(0, round(seconds * 1000)) as
\* hours = T div 3,600,000, minutes = (T div 60,000) mod 60,
\* seconds = (T div 1000) mod 60 and milliseconds = T mod 1000: minutes and
\* seconds stay in 0..59, milliseconds in 0..999, a negative input is written
\* as zero, hours, minutes and seconds have at least two digits and
\* milliseconds exactly three.
C16_TimestampDecomposition ==
  applied.fn = "formatTimestamp" =>
    LET fields == TimestampFields(applied.value, applied.millisecondSeparator)
        T == ParseTimestamp(applied.value, applied.millisecondSeparator)
    IN /\ Len(fields) = 4
       /\ IsClampedRounding(T, applied.seconds)
       /\ ParseDecimal(fields[1]) = T \div 3600000
       /\ ParseDecimal(fields[2]) = (T \div 60000) % 60
       /\ ParseDecimal(fields[3]) = (T \div 1000) % 60
       /\ ParseDecimal(fields[4]) = T % 1000
       /\ Len(fields[1]) >= 2 /\ Len(fields[2]) = 2 /\ Len(fields[3]) = 2
       /\ Len(fields[4]) = 3
       /\ applied.seconds < 0 =>
            applied.value = <<"0", "0", ":", "0", "0", ":", "0", "0",
                              applied.millisecondSeparator, "0", "0", "0">>

\* C16 witness: a time half a millisecond short of a full hour was written
\* as that hour.
C16_Witness ==
  /\ applied.fn = "formatTimestamp"
  /\ applied.seconds = (3600000 * TicksPerMilli) - (TicksPerMilli \div 2)
  /\ applied.value = <<"0", "1", ":", "0", "0", ":", "0", "0", ",", "0", "0", "0">>

\* was the run given a supported audio file within the upload limit, and has
\* its audio preparation ended
PreparedFromSupportedAudio(r) ==
  /\ run[r].inputPath \in InputPaths
  /\ ToLowerCase(run[r].inputPath.ext) \in AUDIO_EXTENSIONS
  /\ InitialFiles[run[r].inputPath] # NoFile
  /\ InitialFiles[run[r].inputPath] <= OPENAI_UPLOAD_LIMIT_BYTES
  /\ \/ run[r].pc \in {"timed", "highAccuracy", "correction", "render", "cleanup",
                       "returned"}
     \/ run[r].pc = "thrown" /\ run[r].failedAt # "Preparing"

\* C17: for a supported audio file within the upload limit no transcoder is
\* invoked, the audio path is the input path, there is no cleanup, and the
\* input file is still there, untouched, on every exit of the run.
C17_SupportedAudioIsLeftAlone ==
  \A r \in Runs :
    PreparedFromSupportedAudio(r) =>
      /\ Range(run[r].calls) \cap {"ffmpeg -version", "ffmpeg"} = {}
      /\ run[r].audioPreparation = [audioPath |-> run[r].inputPath, cleanup |-> Null]
      /\ run[r].tempPath = Null
      /\ run[r].pc # "cleanup"
      /\ files[run[r].inputPath] = InitialFiles[run[r].inputPath]
      /\ files = InitialFiles

\* C17 witness: a run on the mp3 file at the upload limit has failed after
\* its preparation, the file being still there.
C17_Witness ==
  \E r \in Runs :
    /\ run[r].inputPath = Mp3
    /\ run[r].pc = "thrown"
    /\ run[r].failedAt = "TimedTranscribing"
    /\ files[Mp3] = OPENAI_UPLOAD_LIMIT_BYTES

\* C18: with the high-accuracy model configured as none the stage is skipped:
\* no high-accuracy call, no warning for it, models.highAccuracy = null, and
\* the correction call is still issued, with no high-accuracy transcript.
C18_DisabledHighAccuracyIsSkipped ==
  \A r \in Runs :
    env.OPENAI_HIGH_ACCURACY_MODEL = Str(<<" ", "N", "O", "N", "E">>) =>
      /\ ~("highAccuracy" \in Range(run[r].calls))
      /\ run[r].highAccuracy \in {"none", "skipped"}
      /\ run[r].highAccuracyResult = Null
      /\ ~(HighAccuracyWarning \in Range(run[r].warnings))
      /\ (run[r].timedResult # Null /\ env.OPENAI_CORRECTION_MODEL = Undefined) =>
           /\ "correction" \in Range(run[r].calls)
           /\ run[r].highAccuracy = "skipped"
      /\ run[r].pc = "returned" =>
           /\ run[r].result.models.highAccuracy = Null
           /\ ~(HighAccuracyWarning \in Range(run[r].result.warnings))

\* C18 witness: a run has returned an accepted correction with the
\* high-accuracy model configured as none.
C18_Witness ==
  \E r \in Runs :
    /\ env.OPENAI_HIGH_ACCURACY_MODEL = Str(<<" ", "N", "O", "N", "E">>)
    /\ run[r].pc = "returned"
    /\ run[r].correction.status = "accepted"
    /\ run[r].calls = <<"timed", "correction">>

\* is there a stage event of this stage and status at position i of the
\* events sent for request q
IsStageEvent(q, i, stage, status) ==
  /\ i \in DOMAIN request[q].events
  /\ request[q].events[i] = [stage |-> stage, status |-> status]

\* C19: for a request with a socket, once the timed call of its run has been
\* issued a `start` event of timed-transcription has been sent, and once the
\* timed response has been parsed a `done` event has been sent after it.
C19_TimedStageEventsEmitted ==
  \A q \in Runs :
    (request[q].socketId # Undefined /\ request[q].pc # "NotReceived") =>
      /\ "timed" \in Range(run[q].calls) =>
           \E i \in DOMAIN request[q].events :
             IsStageEvent(q, i, "timed-transcription", "start")
      /\ run[q].timedResult # Null =>
           \E i, j \in DOMAIN request[q].events :
             /\ i < j
             /\ IsStageEvent(q, i, "timed-transcription", "start")
             /\ IsStageEvent(q, j, "timed-transcription", "done")

IdsOf(q) == {q[i].id : i \in DOMAIN q}

\* was refineTranscriptWithGPT applied to a response holding an array of
\* segments
RefinedFromItems == applied.fn = "refineTranscriptWithGPT" /\ applied.response.output_text.t = "json" /\ applied.response.output_text.segments.t = "array"

\* C21: when the response lists some but not all of the base ids, and no
\* other id, the correction is accepted and every base segment is still in
\* the returned transcript with its timing, those not listed with their base
\* text.
C21_UnlistedSegmentsAreKept ==
  RefinedFromItems =>
    LET items == ItemsOf(applied.response)
        base == applied.baseResult.segments
    IN (/\ IdsOf(items) # {}
        /\ IdsOf(items) \subseteq IdsOf(base)
        /\ IdsOf(items) # IdsOf(base)) =>
         /\ ~applied.refined.threw
         /\ \A k \in DOMAIN base :
              \E j \in DOMAIN applied.refined.value.segments :
                LET s == applied.refined.value.segments[j]
                IN /\ s.id = base[k].id
                   /\ s.start = base[k].start /\ s.end = base[k].end
                   /\ ~(base[k].id \in IdsOf(items)) => s.text = base[k].text

\* the elements of q with an id below, or not below, a given id
WithIdBelow(q, id) == LET Below(s) == s.id < id IN SelectSeq(q, Below)

WithIdFrom(q, id) == LET From(s) == s.id >= id IN SelectSeq(q, From)

\* a list of segments in ascending order of id, equal ids in their order
RECURSIVE SortedById(_)
SortedById(q) ==
  IF q = <<>> THEN <<>>
  ELSE SortedById(WithIdBelow(Tail(q), Head(q).id)) \o <<Head(q)>>
         \o SortedById(WithIdFrom(Tail(q), Head(q).id))

\* C22: after an accepted correction the returned text is the join with
\* single spaces of the returned segments' texts in ascending order of id,
\* whatever the order of the response; the base text only when that join is
\* empty.
C22_TextJoinsSegmentsInIdOrder ==
  (RefinedFromItems /\ ~applied.refined.threw) =>
    LET joined == Trim(JoinSpace(SegmentTexts(SortedById(applied.refined.value.segments))))
    IN applied.refined.value.text
         = IF joined # <<>> THEN joined ELSE applied.baseResult.text

\* the text of a response item after String(text ?? '').trim()
TrimmedTextOf(item) == IF item.text.t = "str" THEN Trim(item.text.v) ELSE <<>>

\* the first base segment with this id
BaseSegmentWithId(base, id) ==
  base[CHOOSE k \in DOMAIN base :
         base[k].id = id /\ \A j \in DOMAIN base : base[j].id = id => k <= j]

\* C23: in an accepted correction a returned segment whose text is missing or
\* empty after trimming keeps the text of the base segment with its id, and
\* one whose trimmed text is not empty carries that trimmed text.
C23_BlankTextKeepsBaseText ==
  (RefinedFromItems /\ ~applied.refined.threw) =>
    LET items == ItemsOf(applied.response)
        returned == applied.refined.value.segments
    IN /\ Len(returned) = Len(items)
       /\ \A i \in DOMAIN items :
            returned[i].text =
              IF TrimmedTextOf(items[i]) # <<>> THEN TrimmedTextOf(items[i])
              ELSE BaseSegmentWithId(applied.baseResult.segments, items[i].id).text

\* C23 witness: a correction was accepted whose first item had a blank text
\* and whose second item had a text with a space before it.
C23_Witness ==
  /\ RefinedFromItems
  /\ ~applied.refined.threw
  /\ Len(ItemsOf(applied.response)) = 2
  /\ ItemsOf(applied.response)[1].text = Str(<<" ">>)
  /\ ItemsOf(applied.response)[2].text = Str(<<" ", "y">>)
  /\ SegmentTexts(applied.refined.value.segments) = << <<"a">>, <<"y">> >>

\* the lines of a text: what stands between its line feeds
LinesOf(s) == SplitAt(s, {"\n"})

\* the words of a text: what stands between its runs of whitespace
WordsOf(s) ==
  LET IsWord(w) == w # <<>> IN SelectSeq(SplitAt(s, {" ", "\n", "\t"}), IsWord)

\* C24: n >= 1 segments rendered as srt give n blocks in the order of the
\* segments; the k-th block is numbered k, whatever the segment's id, and
\* holds the k-th segment's start and end and its text with every run of
\* whitespace replaced by one space; one empty line ends each block, so
\* exactly one separates two blocks.
C24_SrtBlocksNumberedInOrder ==
  (applied.fn = "buildSrtFromSegments" /\ Len(applied.segments) >= 1) =>
    LET n == Len(applied.segments)
        lines == LinesOf(applied.content)
    IN /\ Len(lines) = 4 * n
       /\ \A k \in 1..n :
            LET segment == applied.segments[k]
            IN /\ lines[4 * k - 3] = ToDecimal(k)
               /\ lines[4 * k - 2] = formatTimestamp(segment.start, ",")
                                       \o <<" ", "-", "-", ">", " ">>
                                       \o formatTimestamp(segment.end, ",")
               /\ lines[4 * k - 1] = JoinSpace(WordsOf(segment.text))
               /\ lines[4 * k] = <<>>

\* C24 witness: two segments were rendered, the first with id 5 and a line
\* feed in its text; its block is numbered 1 and its text is on one line.
C24_Witness ==
  /\ applied.fn = "buildSrtFromSegments"
  /\ Len(applied.segments) = 2
  /\ applied.segments[1].id = 5
  /\ applied.segments[1].text = <<"b", " ", "\n", "c">>
  /\ LinesOf(applied.content)[1] = <<"1">>
  /\ LinesOf(applied.content)[2]
       = <<"0", "0", ":", "0", "0", ":", "0", "1", ",", "5", "0", "0", " ", "-", "-", ">", " ",
           "0", "1", ":", "0", "2", ":", "0", "5", ",", "2", "5", "0">>
  /\ LinesOf(applied.content)[3] = <<"b", " ", "c">>
  /\ LinesOf(applied.content)[5] = <<"2">>

\* the positions of the `complete` events among the stage events of a request
CompleteEvents(q) ==
  {i \in DOMAIN request[q].emitted : request[q].emitted[i].stage = "complete"}

\* is the request answered with a transcript
AnsweredWithTranscript(q) ==
  request[q].status \in 200..299 /\ "text" \in DOMAIN request[q].body

\* C25: a request never emits a second `complete` event nor any stage event
\* after it, and an answered request has emitted exactly one: with status
\* `done` exactly when the answer is a 2xx transcript, with status `error`
\* when the answer is the 400 of a missing file or of an unsupported format
\* or the 500 of a failed pipeline. With a socketId every event emitted is
\* sent to the socket.
C25_OneCompleteEventLast ==
  \A q \in Runs :
    LET emitted == request[q].emitted
    IN /\ Cardinality(CompleteEvents(q)) <= 1
       /\ CompleteEvents(q) # {} => emitted[Len(emitted)].stage = "complete"
       /\ request[q].socketId # Undefined => request[q].events = emitted
       /\ request[q].status # 0 =>
            /\ Cardinality(CompleteEvents(q)) = 1
            /\ emitted[Len(emitted)].status \in {"done", "error"}
            /\ emitted[Len(emitted)].status = "done" <=> AnsweredWithTranscript(q)
            /\ request[q].status \in {400, 500} => emitted[Len(emitted)].status = "error"

\* C25 witness: a request with a socketId whose pipeline failed has been
\* answered 500 after the events upload/done and complete/error.
C25_Witness ==
  /\ request[1].pc = "finished"
  /\ request[1].status = 500
  /\ run[1].pc = "thrown"
  /\ request[1].socketId # Undefined
  /\ request[1].events = << [stage |-> "upload", status |-> "done"],
                            [stage |-> "complete", status |-> "error"] >>

\* the rendering of the text and segments a run returned in the format it
\* returned
RenderingOfReturned(r) ==
  renderSubtitleContent([text |-> run[r].result.text, segments |-> run[r].result.segments],
                        run[r].result.subtitle.format)

\* C26: when a run has returned, subtitle.content is the rendering of the
\* returned text and segments in the returned format, which is one of the
\* normalized formats, and for .srt and .vtt the returned segments are not
\* empty.
C26_ContentRendersReturnedTranscript ==
  \A r \in Runs :
    run[r].pc = "returned" =>
      /\ run[r].result.subtitle.format \in SUBTITLE_FORMATS
      /\ ~RenderingOfReturned(r).threw
      /\ run[r].result.subtitle.content = RenderingOfReturned(r).value
      /\ run[r].result.subtitle.format # <<".", "t", "x", "t">> =>
           Len(run[r].result.segments) >= 1

\* C26 witness: a run has returned an .srt rendered from segments an accepted
\* correction changed.
C26_Witness ==
  \E r \in Runs :
    /\ run[r].pc = "returned"
    /\ run[r].result.subtitle.format = <<".", "s", "r", "t">>
    /\ run[r].correction.status = "accepted"
    /\ run[r].result.segments # run[r].timedResult.segments
    /\ run[r].result.subtitle.content = buildSrtFromSegments(run[r].result.segments)

\* C27: a run whose correction stage was skipped or failed returns the text
\* and the segments of the timed stage, whether the high-accuracy stage was
\* skipped, failed or gave a transcript, and whatever that transcript holds.
C27_HighAccuracyNeverReachesOutput ==
  \A r \in Runs :
    (run[r].pc = "returned" /\ run[r].correction.status \in {"skipped", "failed"}) =>
      /\ run[r].highAccuracy \in {"skipped", "failed", "done"}
      /\ run[r].result.text = run[r].timedResult.text
      /\ run[r].result.segments = run[r].timedResult.segments

\* C27 witness: a run whose high-accuracy transcript differs from the timed
\* text has returned the timed text after the correction was skipped.
C27_Witness ==
  \E r \in Runs :
    /\ run[r].pc = "returned"
    /\ run[r].correction.status = "skipped"
    /\ run[r].highAccuracy = "done"
    /\ run[r].highAccuracyResult.text # run[r].timedResult.text
    /\ run[r].result.text = run[r].timedResult.text

\* C28: when the unlink of the temp file fails in the finally block, the run
\* ends as its try block ended: it returns the value that was to be returned,
\* or it throws the error that was thrown, not the error of the unlink.
C28_CleanupFailureKeepsOutcome ==
  [][ \A r \in Runs :
        (run[r].pc = "cleanup" /\ run'[r].pc # "cleanup" /\ run'[r].unlinkFailed) =>
          IF run[r].pending.kind = "return"
          THEN run'[r].pc = "returned" /\ run'[r].result = run[r].pending.value
          ELSE run'[r].pc = "thrown" /\ run'[r].error = run[r].pending.message ]_vars

\* C28 witness: a run whose timed response had no usable segment has thrown
\* that error after the unlink of its temp file failed.
C28_Witness ==
  \E r \in Runs :
    /\ run[r].pc = "thrown"
    /\ run[r].unlinkFailed
    /\ files[run[r].tempPath] # NoFile
    /\ run[r].error = NoTimestampsAvailable

\* the positions of the client's stage list whose stage is active
ActiveStages(stages) == {i \in DOMAIN stages : stages[i].status = "active"}

\* the step is the handling of a `start` event for a stage the client lists
HandlesStartEvent ==
  /\ client'.handled = client.handled + 1
  /\ client'.lastEvent.status = "start"
  /\ IndexOf(STAGE_ORDER, client'.lastEvent.stage) # -1

\* C29: since the submit, as long as the `start` events have arrived in the
\* order of the pipeline, at most one stage of the client's list is active;
\* and the handling of a `start` event makes its stage active, turns every
\* earlier stage that was active into done, and changes nothing else.
C29_AtMostOneActiveStage ==
  /\ [](client.submitted /\ client.startsInOrder =>
          Cardinality(ActiveStages(client.stages)) <= 1)
  /\ [][ HandlesStartEvent =>
           LET target == IndexOf(STAGE_ORDER, client'.lastEvent.stage) + 1
           IN \A i \in DOMAIN client.stages :
                client'.stages[i] =
                  IF i = target THEN [client.stages[i] EXCEPT !.status = "active"]
                  ELSE IF i < target /\ client.stages[i].status = "active"
                  THEN [client.stages[i] EXCEPT !.status = "done"]
                  ELSE client.stages[i] ]_vars

\* C29 witness: after the submit the `start` events of two stages were
\* handled in order: upload and timed-transcription are done, high-accuracy
\* is the one active stage.
C29_Witness ==
  /\ client.submitted
  /\ client.startsInOrder
  /\ client.lastEvent = [stage |-> "high-accuracy", status |-> "start", message |-> Undefined]
  /\ client.lastStart = 2
  /\ client.stages[1].status = "done"
  /\ client.stages[2].status = "done"
  /\ ActiveStages(client.stages) = {3}

\* C30: an answer with a videoId that is not null comes with a row whose
\* stored path names the file of the storage directory the upload was copied
\* to; and when the copy or the insertion failed, the answer carries videoId
\* null and, unless the file system refused the unlink, the copy is gone.
C30_StoredPathNamesTheCopy ==
  \A q \in Runs :
    (request[q].status = 200 /\ request[q].storage # "none") =>
      /\ request[q].body.videoId # Null =>
           /\ request[q].row # Null
           /\ request[q].copiedTo # Null
           /\ request[q].copiedTo.dir = VideosStorageDir
           /\ request[q].row.storedPath = request[q].copiedTo.name
           /\ files[request[q].copiedTo] # NoFile
      /\ request[q].storage \in {"copy failed", "insert failed"} =>
           /\ request[q].body.videoId = Null
           /\ request[q].copiedTo # Null => files[request[q].copiedTo] = NoFile

====
